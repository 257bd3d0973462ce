----------------------------- MODULE PresetProofs -----------------------------
(***************************************************************************)
(* What resolve_config computes, for any configurations, and what an       *)
(* allocation stores while any number of administrators edit them.         *)
(***************************************************************************)
EXTENDS PresetConfig, FiniteSetTheorems, TLAPS

\* A configuration with known fields, valid or not.
IsLayer(l) == /\ DOMAIN l.top \subseteq TopFields
              /\ DOMAIN l.config \subseteq Flags

\* One round of the loop of resolve_config: the fields a layer sets get its
\* values, nested flags one by one, and the others keep theirs.
LEMMA MergeOverrides ==
    ASSUME NEW a, NEW b, NEW f \in Fields, IsLayer(a), IsLayer(b)
    PROVE  /\ IsLayer(Merge(a, b))
           /\ ValueIn(Merge(a, b), f) = IF Sets(b, f) THEN ValueIn(b, f)
                                                      ELSE ValueIn(a, f)
PROOF
<1>1. IsLayer(Merge(a, b))
  BY DEF Merge, IsLayer, Updated
<1>2. ASSUME Sets(b, f) PROVE ValueIn(Merge(a, b), f) = ValueIn(b, f)
  BY <1>2, FieldsAssumption DEF Merge, Sets, ValueIn, IsLayer, Fields, Updated
<1>3. ASSUME ~Sets(b, f) PROVE ValueIn(Merge(a, b), f) = ValueIn(a, f)
  BY <1>3, FieldsAssumption DEF Merge, Sets, ValueIn, IsLayer, Fields, Updated
<1> QED
  BY <1>1, <1>2, <1>3, Zenon

\* resolve_config gives every field the value of the last layer that sets it:
\* the room's, the client's preset's, the system default's, the built-in one.
THEOREM LastLayerWins ==
    ASSUME NEW system, NEW client, NEW room,
           IsLayer(system), IsLayer(client), IsLayer(room)
    PROVE  Flat(Resolve(system, client, room)) = LastWins(system, client, room)
PROOF
<1> DEFINE r1 == Merge(Base, system)
           r2 == Merge(r1, client)
           r3 == Merge(r2, room)
<1>1. SUFFICES ASSUME NEW f \in Fields
               PROVE  ValueIn(r3, f) = LastWins(system, client, room)[f]
  BY DEF Flat, LastWins, Resolve
<1>2. IsLayer(Base)
  BY FieldsAssumption DEF Base, IsLayer
<1>3. /\ IsLayer(r1)
      /\ ValueIn(r1, f) = IF Sets(system, f) THEN ValueIn(system, f)
                                             ELSE ValueIn(Base, f)
  BY <1>2, MergeOverrides
<1> HIDE DEF r1
<1>4. /\ IsLayer(r2)
      /\ ValueIn(r2, f) = IF Sets(client, f) THEN ValueIn(client, f)
                                             ELSE ValueIn(r1, f)
  BY <1>3, MergeOverrides
<1> HIDE DEF r2
<1>5. ValueIn(r3, f) = IF Sets(room, f) THEN ValueIn(room, f)
                                        ELSE ValueIn(r2, f)
  BY <1>4, MergeOverrides
<1> HIDE DEF r3
<1> QED
  BY <1>3, <1>4, <1>5, Zenon DEF LastWins

----------------------------------------------------------------------------
(***************************************************************************)
(* The presets                                                             *)
(***************************************************************************)
LEMMA LayersKnown == \A l \in AnyLayer : IsLayer(l)
PROOF
<1>1. IsLayer(Empty)
  BY DEF Empty, IsLayer
<1>2. \A l \in Layers : IsLayer(l)
  BY FieldsAssumption DEF IsLayer
<1> QED
  BY <1>1, <1>2 DEF AnyLayer

LEMMA EmptyIsValid == Valid(Empty)
PROOF
  BY DEF Empty, Valid

\* There is one system default at most, so .first() has nothing to choose.
LEMMA DefaultFound ==
    ASSUME OneDefault
    PROVE  /\ \A n \in Names : preset[n].default => SystemLayer = preset[n].layer
           /\ (\A n \in Names : ~preset[n].default) => SystemLayer = Empty
PROOF
<1>1. ASSUME NEW n \in Names, preset[n].default PROVE SystemLayer = preset[n].layer
  <2>1. PICK m : m = CHOOSE p \in Names : preset[p].default
    OBVIOUS
  <2>2. m \in Names /\ preset[m].default
    BY <1>1, <2>1
  <2>3. m = n
    BY <1>1, <2>2 DEF OneDefault
  <2> QED
    BY <1>1, <2>1, <2>3 DEF SystemLayer
<1> QED
  BY <1>1 DEF SystemLayer

\* What saving or deleting one preset does to the system default.
LEMMA DefaultEdited ==
    ASSUME PresetTyped, OneDefault, NEW n \in Names,
           NEW row \in [layer : AnyLayer, default : BOOLEAN, exists : BOOLEAN],
           preset' = [preset EXCEPT ![n] = row],
           row.default => \A p \in Names \ {n} : ~preset[p].default
    PROVE  /\ OneDefault'
           /\ row.default => SystemLayer' = row.layer
           /\ ~row.default /\ preset[n].default
                 => SystemLayer = preset[n].layer /\ SystemLayer' = Empty
           /\ ~row.default /\ ~preset[n].default => SystemLayer' = SystemLayer
PROOF
<1>1. /\ preset'[n] = row
      /\ \A p \in Names \ {n} : preset'[p] = preset[p]
  BY DEF PresetTyped
<1>2. OneDefault'
  BY <1>1 DEF OneDefault
<1>3. /\ \A p \in Names : preset'[p].default => SystemLayer' = preset'[p].layer
      /\ (\A p \in Names : ~preset'[p].default) => SystemLayer' = Empty
  <2>1. ASSUME NEW p \in Names, preset'[p].default PROVE SystemLayer' = preset'[p].layer
    <3>1. PICK m : m = CHOOSE q \in Names : preset'[q].default
      OBVIOUS
    <3>2. m \in Names /\ preset'[m].default
      BY <2>1, <3>1
    <3>3. m = p
      BY <1>2, <2>1, <3>2 DEF OneDefault
    <3> QED
      BY <2>1, <3>1, <3>3 DEF SystemLayer
  <2> QED
    BY <2>1 DEF SystemLayer
<1>4. row.default => SystemLayer' = row.layer
  BY <1>1, <1>3
<1>5. ASSUME ~row.default, preset[n].default
      PROVE  SystemLayer = preset[n].layer /\ SystemLayer' = Empty
  <2>1. \A p \in Names : ~preset'[p].default
    BY <1>1, <1>5 DEF OneDefault
  <2> QED
    BY <1>3, <1>5, <2>1, DefaultFound
<1>6. ASSUME ~row.default, ~preset[n].default PROVE SystemLayer' = SystemLayer
  <2>1. CASE \E p \in Names : preset[p].default
    <3>1. PICK p \in Names : preset[p].default
      BY <2>1
    <3>2. preset'[p] = preset[p]
      BY <1>1, <1>6, <3>1
    <3> QED
      BY <1>3, <3>1, <3>2, DefaultFound
  <2>2. CASE \A p \in Names : ~preset[p].default
    <3>1. \A p \in Names : ~preset'[p].default
      BY <1>1, <1>6, <2>2
    <3> QED
      BY <1>3, <2>2, <3>1, DefaultFound
  <2> QED
    BY <2>1, <2>2
<1> QED
  BY <1>2, <1>4, <1>5, <1>6

LEMMA LayersRead ==
    ASSUME PresetTyped, OneDefault
    PROVE  /\ SystemLayer \in AnyLayer /\ ClientLayer \in AnyLayer
           /\ HeldPreset \in AnyLayer
PROOF
<1>1. Empty \in AnyLayer
  BY DEF AnyLayer
<1>2. SystemLayer \in AnyLayer
  <2>1. CASE \E n \in Names : preset[n].default
    BY <2>1, DefaultFound DEF PresetTyped
  <2>2. CASE \A n \in Names : ~preset[n].default
    BY <1>1, <2>2, DefaultFound
  <2> QED
    BY <2>1, <2>2
<1>3. ClientLayer \in AnyLayer
  BY <1>1 DEF ClientLayer, PresetTyped
<1>4. HeldPreset \in AnyLayer
  <2>1. alloc.chosen \in Names \cup {NoPreset}
    BY DEF PresetTyped
  <2> QED
    BY <1>1, <2>1 DEF HeldPreset, PresetTyped
<1> QED
  BY <1>2, <1>3, <1>4

LEMMA PresetsBegin == Init => PresetInv
PROOF
<1> SUFFICES ASSUME Init PROVE PresetInv
  OBVIOUS
<1>1. \A l \in Layers, d \in BOOLEAN :
         /\ Preset(l, d) \in [layer : AnyLayer, default : BOOLEAN, exists : BOOLEAN]
         /\ Preset(l, d).exists
  BY DEF Preset, AnyLayer
<1>2. /\ preset \in [Names -> [layer : AnyLayer, default : BOOLEAN, exists : BOOLEAN]]
      /\ \A n \in Names : preset[n].exists
  BY <1>1 DEF Init
<1>3. alloc = Idle /\ Idle.at = "idle" /\ Idle.outcome = "none" /\ saves = 0
  BY DEF Init, Idle
<1>4. PresetTyped
  <2>1. Empty \in AnyLayer /\ Empty \in Payloads
    BY DEF AnyLayer, Payloads
  <2> QED
    BY <1>2, <1>3, <2>1 DEF Init, PresetTyped, Idle
<1>5. OneDefault
  <2> SUFFICES ASSUME NEW m \in Names, NEW n \in Names,
                      preset[m].default, preset[n].default, m # n
               PROVE  FALSE
    BY DEF OneDefault
  <2>1. PICK S : S = {p \in Names : preset[p].default}
    OBVIOUS
  <2>2. IsFiniteSet(S) /\ {m, n} \subseteq S
    BY <2>1, FieldsAssumption, FS_Subset
  <2>3. IsFiniteSet({m, n}) /\ Cardinality({m, n}) = 2
    <3>1. IsFiniteSet({n}) /\ Cardinality({n}) = 1
      BY FS_Singleton
    <3>2. IsFiniteSet({n} \cup {m}) /\ Cardinality({n} \cup {m}) = 2
      BY <3>1, FS_AddElement
    <3>3. {n} \cup {m} = {m, n}
      OBVIOUS
    <3> QED
      BY <3>2, <3>3
  <2>4. Cardinality({m, n}) <= Cardinality(S)
    BY <2>2, FS_Subset
  <2>5. Cardinality(S) <= 1
    BY <2>1 DEF Init
  <2>6. Cardinality(S) \in Nat
    BY <2>2, FS_CardinalityType
  <2> QED
    BY <2>3, <2>4, <2>5, <2>6
<1>6. ChosenExists
  BY <1>2 DEF Init, ChosenExists
<1> QED
  BY <1>3, <1>4, <1>5, <1>6 DEF PresetInv, Running, Stored, FailuresNeedAnEdit

----------------------------------------------------------------------------
(***************************************************************************)
(* The administrators                                                      *)
(***************************************************************************)

\* The edits an allocation can meet, seen from what it has read.  Only the first
\* has to be followed.
LEMMA EditKept ==
    ASSUME PresetInv, PresetTyped', OneDefault', ChosenExists', Counted,
           alloc' = alloc, Running => override' = override,
           SystemLayer' = SystemLayer \/ Valid(SystemLayer'),
           Running /\ saves = 0 => EditedOnce'
    PROVE  PresetInv'
PROOF
<1>1. /\ alloc.at \in {"idle", "default", "preset", "payload"} /\ saves \in Nat
      /\ alloc'.at = alloc.at /\ alloc.outcome = "none" /\ alloc'.outcome = "none"
      /\ Running' = Running
  BY DEF PresetInv, PresetTyped, Counted, Running
<1>2. CASE ~Running
  <2>1. alloc.at = "idle" /\ saves' = 0 /\ alloc = Idle
    BY <1>1, <1>2 DEF Running, PresetInv, Counted
  <2> QED
    BY <1>1, <1>2, <2>1 DEF PresetInv, Stored, FailuresNeedAnEdit
<1>3. CASE Running
  <2>1. saves' = saves + 1 /\ InForce' \in moments' /\ saves' \in Nat /\ saves' # 0
    BY <1>1, <1>3 DEF Counted
  <2>2. saves' = 1 => EditedOnce'
    BY <1>1, <1>3, <2>1
  <2>3. alloc.at # "idle" /\ override' = override
    BY <1>3 DEF Running
  <2>4. alloc'.at \in {"preset", "payload"} =>
           alloc'.system = SystemLayer' \/ Valid(SystemLayer')
    BY <1>1 DEF PresetInv
  <2>5. alloc'.at = "payload" => Configured(alloc.system, alloc.client, override)'
    BY <2>3 DEF PresetInv, Configured, Resolvable
  <2>6. FailuresNeedAnEdit' /\ ~Stored'
    BY <1>1 DEF FailuresNeedAnEdit, Stored
  <2> QED
    BY <1>1, <2>1, <2>2, <2>3, <2>4, <2>5, <2>6 DEF PresetInv
<1> QED
  BY <1>2, <1>3

\* A preset is saved or deleted.  Whatever of it the allocation has read already
\* is what was in force; the rest is what is in force now.  If the preset was or
\* becomes both the client's and the system default, it is read in two states.
LEMMA PresetEditKept ==
    ASSUME PresetInv, Counted, UNCHANGED <<chosen, override, alloc>>,
           NEW n \in Names,
           NEW row \in [layer : AnyLayer, default : BOOLEAN, exists : BOOLEAN],
           preset' = [preset EXCEPT ![n] = row],
           row.default => \A p \in Names \ {n} : ~preset[p].default,
           Valid(row.layer), row.exists \/ n # chosen
    PROVE  PresetInv'
PROOF
<1>1. /\ PresetTyped /\ OneDefault /\ ChosenExists /\ NoPreset \notin Names
      /\ preset'[n] = row
      /\ \A p \in Names \ {n} : preset'[p] = preset[p]
      /\ saves' \in Nat /\ chosen \in Names \cup {NoPreset}
  BY FieldsAssumption DEF PresetInv, PresetTyped, Counted
<1>2. PresetTyped'
  BY <1>1 DEF PresetTyped
<1>3. ChosenExists'
  BY <1>1 DEF ChosenExists
<1>4. /\ OneDefault'
      /\ row.default => SystemLayer' = row.layer
      /\ ~row.default /\ preset[n].default
            => SystemLayer = preset[n].layer /\ SystemLayer' = Empty
      /\ ~row.default /\ ~preset[n].default => SystemLayer' = SystemLayer
  BY <1>1, DefaultEdited
<1>5. SystemLayer' = SystemLayer \/ Valid(SystemLayer')
  <2>1. CASE row.default
    BY <1>4, <2>1 DEF Valid
  <2>2. CASE ~row.default
    BY <1>4, <2>2, EmptyIsValid DEF Valid
  <2> QED
    BY <2>1, <2>2
<1>6. ASSUME Running, saves = 0 PROVE EditedOnce'
  <2>1. /\ alloc.chosen = chosen
        /\ alloc.at = "payload" => alloc.client = ClientLayer
        /\ InForce \in moments
    BY <1>6 DEF PresetInv, Unedited
  <2>2. InForce' \in moments' /\ moments \subseteq moments'
    BY <1>6 DEF Counted
  <2>3. HeldExists' /\ HeldPreset' = ClientLayer'
    BY <1>3, <2>1 DEF HeldExists, HeldPreset, ClientLayer, ChosenExists
  <2>4. ASSUME alloc.at \in {"default", "preset"}
        PROVE  LastWins(SystemLayer, HeldPreset, override)' \in moments'
    BY <2>2, <2>3 DEF InForce, LastWins
  <2>5. ASSUME alloc.at = "payload"
        PROVE  Fits(LastWins(SystemLayer, alloc.client, override))'
    <3>1. PICK p : p = LastWins(SystemLayer', ClientLayer, override)
      OBVIOUS
    <3>2. p = LastWins(SystemLayer, alloc.client, override)'
      BY <2>1, <2>5, <3>1 DEF LastWins
    <3>3. ASSUME p \in moments' PROVE Fits(p)'
      BY <3>3 DEF Fits
    <3>4. CASE ClientLayer' = ClientLayer
      <4>1. p = InForce'
        BY <3>1, <3>4 DEF InForce, LastWins
      <4> QED
        BY <2>2, <3>2, <3>3, <4>1 DEF Fits
    <3>5. CASE SystemLayer' = SystemLayer
      <4>1. p = InForce
        BY <3>1, <3>5 DEF InForce
      <4> QED
        BY <2>1, <2>2, <3>2, <3>3, <4>1 DEF Fits
    <3>6. CASE ClientLayer' # ClientLayer /\ SystemLayer' # SystemLayer
      <4>1. n = chosen /\ ClientLayer = preset[n].layer /\ ClientLayer' = row.layer
        <5>1. chosen = n
          BY <1>1, <3>6 DEF ClientLayer
        <5> QED
          BY <1>1, <5>1 DEF ClientLayer
      <4>2. CASE row.default
        <5>1. SystemLayer' = ClientLayer'
          BY <1>4, <4>1, <4>2
        <5>2. \E m \in Names : m = chosen' /\ preset'[m].default
          BY <1>1, <4>1, <4>2
        <5>3. ASSUME NEW f \in Fields PROVE p[f] = InForce[f] \/ p[f] = InForce'[f]
          <6>1. PICK s : s = SystemLayer'
            OBVIOUS
          <6>2. InForce' = LastWins(s, s, override)
            BY <5>1, <6>1 DEF InForce, LastWins
          <6>3. InForce = LastWins(SystemLayer, ClientLayer, override)
            BY DEF InForce
          <6>4. CASE Sets(ClientLayer, f)
            BY <3>1, <6>3, <6>4 DEF LastWins
          <6>5. CASE ~Sets(ClientLayer, f)
            BY <3>1, <6>1, <6>2, <6>5 DEF LastWins
          <6> QED
            BY <6>4, <6>5
        <5>4. Fits(p)'
          BY <2>1, <2>2, <5>2, <5>3 DEF Fits
        <5> QED
          BY <3>2, <5>4 DEF Fits
      <4>3. CASE ~row.default
        <5>1. preset[n].default /\ SystemLayer = ClientLayer /\ SystemLayer' = Empty
          BY <1>4, <3>6, <4>1, <4>3
        <5>2. \A f \in Fields : ~Sets(Empty, f)
          BY DEF Sets, Empty
        <5>3. p = InForce
          BY <3>1, <5>1, <5>2 DEF InForce, LastWins
        <5> QED
          BY <2>1, <2>2, <3>2, <3>3, <5>3 DEF Fits
      <4> QED
        BY <4>2, <4>3
    <3> QED
      BY <3>4, <3>5, <3>6
  <2> QED
    BY <2>3, <2>4, <2>5 DEF EditedOnce
<1> QED
  BY <1>2, <1>3, <1>4, <1>5, <1>6, EditKept

LEMMA SavePresetKept ==
    ASSUME PresetInv, NEW n \in Names, NEW l \in Layers, NEW default \in BOOLEAN,
           SavePreset(n, l, default)
    PROVE  PresetInv'
PROOF
<1>1. PICK row : row = Preset(l, default)
  OBVIOUS
<1>2. /\ row \in [layer : AnyLayer, default : BOOLEAN, exists : BOOLEAN]
      /\ row.layer = l /\ row.default = default /\ row.exists
  BY <1>1 DEF Preset, AnyLayer
<1>3. /\ Counted /\ UNCHANGED <<chosen, override, alloc>>
      /\ preset' = [preset EXCEPT ![n] = row]
      /\ row.default => \A p \in Names \ {n} : ~preset[p].default
      /\ Valid(row.layer)
  BY <1>1, <1>2 DEF SavePreset
<1> QED
  BY <1>2, <1>3, PresetEditKept

LEMMA DeletePresetKept ==
    ASSUME PresetInv, NEW n \in Names, DeletePreset(n)
    PROVE  PresetInv'
PROOF
<1>1. PICK row : row = Deleted
  OBVIOUS
<1>2. /\ row \in [layer : AnyLayer, default : BOOLEAN, exists : BOOLEAN]
      /\ row.layer = Empty /\ ~row.default
  BY <1>1 DEF Deleted, AnyLayer
<1>3. /\ Counted /\ UNCHANGED <<chosen, override, alloc>>
      /\ preset' = [preset EXCEPT ![n] = row] /\ n # chosen
  BY <1>1 DEF DeletePreset
<1> QED
  BY <1>2, <1>3, EmptyIsValid, PresetEditKept

LEMMA ChoosePresetKept ==
    ASSUME PresetInv, NEW c \in Names \cup {NoPreset}, ChoosePreset(c)
    PROVE  PresetInv'
PROOF
<1>1. /\ Counted /\ UNCHANGED <<preset, override, alloc>> /\ chosen' = c
      /\ c = NoPreset \/ preset[c].exists
      /\ PresetTyped /\ OneDefault /\ ChosenExists /\ saves' \in Nat
  BY DEF ChoosePreset, PresetInv, PresetTyped, Counted
<1>2. PresetTyped' /\ OneDefault' /\ ChosenExists' /\ SystemLayer' = SystemLayer
  BY <1>1 DEF PresetTyped, OneDefault, ChosenExists, SystemLayer
<1>3. ASSUME Running, saves = 0 PROVE EditedOnce'
  <2>1. /\ alloc.chosen = chosen /\ InForce \in moments
        /\ alloc.at = "payload" => alloc.client = ClientLayer
    BY <1>3 DEF PresetInv, Unedited
  <2>2. moments \subseteq moments'
    BY <1>1, <1>3 DEF Counted
  <2>3. /\ HeldExists' /\ HeldPreset' = ClientLayer
    BY <1>1, <2>1 DEF HeldExists, HeldPreset, ClientLayer, ChosenExists
  <2>4. alloc.at \in {"default", "preset"} =>
           LastWins(SystemLayer, HeldPreset, override)' = InForce
    BY <1>1, <1>2, <2>3 DEF InForce, LastWins
  <2>5. alloc.at = "payload" =>
           LastWins(SystemLayer, alloc.client, override)' = InForce
    BY <1>1, <1>2, <2>1 DEF InForce, LastWins
  <2> QED
    BY <1>1, <2>1, <2>2, <2>3, <2>4, <2>5 DEF EditedOnce, Fits
<1> QED
  BY <1>1, <1>2, <1>3, EditKept

\* The room's own configuration waits for the allocation.
LEMMA SaveRoomKept ==
    ASSUME PresetInv, NEW l \in Layers, SaveRoom(l)
    PROVE  PresetInv'
PROOF
<1>1. /\ Counted /\ UNCHANGED <<preset, chosen, alloc>> /\ override' = l /\ ~Running
      /\ PresetTyped /\ OneDefault /\ ChosenExists /\ saves' \in Nat
  BY DEF SaveRoom, PresetInv, PresetTyped, Counted
<1>2. PresetTyped' /\ OneDefault' /\ ChosenExists' /\ SystemLayer' = SystemLayer
  BY <1>1 DEF PresetTyped, OneDefault, ChosenExists, SystemLayer
<1> QED
  BY <1>1, <1>2, EditKept

----------------------------------------------------------------------------
(***************************************************************************)
(* The allocation                                                          *)
(***************************************************************************)

\* Its steps change no row.
LEMMA RowsUnchanged ==
    ASSUME PresetInv, UNCHANGED <<preset, chosen, override, saves>>
    PROVE  /\ OneDefault' /\ ChosenExists'
           /\ SystemLayer' = SystemLayer /\ ClientLayer' = ClientLayer
           /\ InForce' = InForce
PROOF
<1>1. SystemLayer' = SystemLayer /\ ClientLayer' = ClientLayer
  BY DEF SystemLayer, ClientLayer
<1> QED
  BY <1>1 DEF PresetInv, OneDefault, ChosenExists, InForce

LEMMA LockRoomKept ==
    ASSUME PresetInv, LockRoom
    PROVE  PresetInv'
PROOF
<1>1. PICK a : a = [alloc EXCEPT !.at = "default", !.chosen = chosen]
  OBVIOUS
<1>2. /\ alloc' = a /\ moments' = {InForce} /\ saves = 0 /\ alloc.outcome = "none"
      /\ UNCHANGED <<preset, chosen, override, saves>>
      /\ PresetTyped
  BY <1>1 DEF LockRoom, PresetInv
<1>3. PresetTyped' /\ a.at = "default" /\ a.chosen = chosen /\ a.outcome = "none"
  BY <1>1, <1>2 DEF PresetTyped
<1>4. /\ OneDefault' /\ ChosenExists' /\ InForce' = InForce
  BY <1>2, RowsUnchanged
<1>5. Unedited'
  BY <1>2, <1>3 DEF Unedited
<1> QED
  BY <1>2, <1>3, <1>4, <1>5 DEF PresetInv, Running, Stored, FailuresNeedAnEdit

LEMMA ReadDefaultKept ==
    ASSUME PresetInv, ReadDefault
    PROVE  PresetInv'
PROOF
<1>1. PICK s : s = SystemLayer
  OBVIOUS
<1>2. PICK a : a = [alloc EXCEPT !.at = "preset", !.system = s]
  OBVIOUS
<1>3. /\ alloc' = a /\ UNCHANGED <<preset, chosen, override, saves, moments>>
      /\ PresetTyped /\ alloc.at = "default" /\ alloc.outcome = "none" /\ Running
      /\ saves \in Nat
  BY <1>1, <1>2 DEF ReadDefault, PresetInv, Running, PresetTyped
<1>4. s \in AnyLayer
  BY <1>1, LayersRead DEF PresetInv
<1>5. /\ PresetTyped' /\ a.at = "preset" /\ a.system = s
      /\ a.chosen = alloc.chosen /\ a.outcome = "none"
  BY <1>2, <1>3, <1>4 DEF PresetTyped
<1>6. /\ OneDefault' /\ ChosenExists' /\ InForce' = InForce
      /\ SystemLayer' = SystemLayer
  BY <1>3, RowsUnchanged
<1>7. saves = 0 => Unedited'
  BY <1>1, <1>3, <1>5, <1>6 DEF Unedited, PresetInv
<1>8. saves = 1 => EditedOnce'
  <2>1. HeldPreset' = HeldPreset /\ (HeldExists => HeldExists')
    BY <1>3, <1>5 DEF HeldPreset, HeldExists
  <2> QED
    BY <1>3, <1>5, <1>6, <2>1 DEF EditedOnce, PresetInv, LastWins
<1> QED
  BY <1>1, <1>3, <1>5, <1>6, <1>7, <1>8
     DEF PresetInv, Running, Stored, FailuresNeedAnEdit

\* The end of an allocation that stores nothing.
LEMMA EndKept ==
    ASSUME PresetInv, UNCHANGED <<preset, chosen, override, saves, moments>>,
           NEW outcome \in {"ROOM_UNAVAILABLE", "INTERNAL_ERROR",
                            "PROVIDER_CONTRACT_UNCONFIRMED"},
           Ends(outcome, Empty),
           outcome = "PROVIDER_CONTRACT_UNCONFIRMED" => saves >= 1,
           outcome = "INTERNAL_ERROR" => saves >= 2
    PROVE  PresetInv'
PROOF
<1>1. PresetTyped /\ NoPreset \notin Names /\ Empty \in AnyLayer /\ Empty \in Payloads
  BY FieldsAssumption DEF PresetInv, AnyLayer, Payloads
<1>2. PICK a : a = [Idle EXCEPT !.at = "done", !.outcome = outcome, !.payload = Empty]
  OBVIOUS
<1>3. alloc' = a /\ a.at = "done" /\ a.outcome = outcome
  BY <1>2 DEF Ends, Idle
<1>4. PresetTyped'
  BY <1>1, <1>2, <1>3 DEF PresetTyped, Idle
<1>5. OneDefault' /\ ChosenExists'
  BY RowsUnchanged
<1>6. ~Running' /\ ~Stored'
  BY <1>3 DEF Running, Stored
<1> QED
  BY <1>3, <1>4, <1>5, <1>6 DEF PresetInv, FailuresNeedAnEdit

\* The client's preset is gone only after two edits: one that takes it from the
\* client, and one that deletes it.
LEMMA ReadPresetKept ==
    ASSUME PresetInv, ReadPreset
    PROVE  PresetInv'
PROOF
<1>1. /\ PresetTyped /\ alloc.at = "preset" /\ alloc.outcome = "none" /\ Running
      /\ UNCHANGED <<preset, chosen, override, saves, moments>> /\ saves \in Nat
      /\ NoPreset \notin Names
  BY FieldsAssumption DEF ReadPreset, PresetInv, Running, PresetTyped
<1>2. PICK c : c = HeldPreset
  OBVIOUS
<1>3. c \in AnyLayer
  BY <1>2, LayersRead DEF PresetInv
<1>4. CASE Ends("INTERNAL_ERROR", Empty) /\ ~HeldExists
  <2>1. saves # 0
    BY <1>1, <1>4 DEF PresetInv, Unedited, HeldExists, ChosenExists
  <2>2. saves # 1
    BY <1>1, <1>4 DEF PresetInv, EditedOnce
  <2>3. saves >= 2
    BY <1>1, <2>1, <2>2
  <2> QED
    BY <1>1, <1>4, <2>3, EndKept
<1>5. CASE Ends("ROOM_UNAVAILABLE", Empty)
  BY <1>1, <1>5, EndKept
<1>6. CASE /\ HeldExists /\ Configured(alloc.system, c, override)
           /\ alloc' = [alloc EXCEPT !.at = "payload", !.client = c]
  <2>1. PICK a : a = [alloc EXCEPT !.at = "payload", !.client = c]
    OBVIOUS
  <2>2. /\ PresetTyped' /\ a.at = "payload" /\ a.client = c /\ a.system = alloc.system
        /\ a.chosen = alloc.chosen /\ a.outcome = "none" /\ alloc' = a
    BY <1>1, <1>3, <1>6, <2>1 DEF PresetTyped
  <2>3. /\ OneDefault' /\ ChosenExists' /\ InForce' = InForce
        /\ SystemLayer' = SystemLayer /\ ClientLayer' = ClientLayer
    BY <1>1, RowsUnchanged
  <2>4. saves = 0 => Unedited'
    <3>1. saves = 0 => c = ClientLayer
      BY <1>1, <1>2 DEF PresetInv, Unedited, HeldPreset, ClientLayer
    <3> QED
      BY <1>1, <2>2, <2>3, <3>1 DEF PresetInv, Unedited
  <2>5. saves = 1 => EditedOnce'
    <3>1. ASSUME saves = 1 PROVE LastWins(SystemLayer, alloc.client, override)' \in moments'
      <4>1. LastWins(SystemLayer, c, override) \in moments
        BY <1>1, <1>2, <3>1 DEF PresetInv, EditedOnce
      <4> QED
        BY <1>1, <2>2, <2>3, <4>1 DEF LastWins
    <3> QED
      BY <2>2, <3>1 DEF EditedOnce, Fits
  <2>6. /\ alloc'.system = SystemLayer' \/ Valid(SystemLayer')
        /\ Configured(alloc.system, alloc.client, override)'
    BY <1>1, <1>6, <2>2, <2>3 DEF PresetInv, Configured, Resolvable, Valid
  <2> QED
    BY <1>1, <2>2, <2>3, <2>4, <2>5, <2>6
       DEF PresetInv, Running, Stored, FailuresNeedAnEdit
<1> QED
  BY <1>2, <1>4, <1>5, <1>6 DEF ReadPreset, HeldPreset, HeldExists

\* The second resolution finds the system default it had found, or one that an
\* administrator has saved since, which is valid.
LEMMA ResolvePayloadKept ==
    ASSUME PresetInv, ResolvePayload
    PROVE  PresetInv'
PROOF
<1>1. PICK s : s = SystemLayer
  OBVIOUS
<1>2. /\ PresetTyped /\ alloc.at = "payload" /\ alloc.outcome = "none" /\ Running
      /\ UNCHANGED <<preset, chosen, override, saves, moments>> /\ saves \in Nat
      /\ NoPreset \notin Names
      /\ Configured(alloc.system, alloc.client, override)
      /\ alloc.system = s \/ Valid(s)
      /\ saves = 0 => s = alloc.system /\ alloc.client = ClientLayer /\ InForce \in moments
  BY <1>1, FieldsAssumption
     DEF ResolvePayload, PresetInv, Running, PresetTyped, Unedited
<1>3. Resolvable(s, alloc.client, override)
  BY <1>2 DEF Configured, Resolvable
<1>4. CASE /\ TypeOf(Resolve(s, alloc.client, override)) = "scheduled"
           /\ Ends("PROVIDER_CONTRACT_UNCONFIRMED", Empty)
  <2>1. saves # 0
    BY <1>2, <1>4 DEF Configured
  <2>2. saves >= 1
    BY <1>2, <2>1
  <2> QED
    BY <1>2, <1>4, <2>2, EndKept
<1>5. CASE Ends("stored", Resolve(s, alloc.client, override))
  <2>1. PICK p : p = Resolve(s, alloc.client, override)
    OBVIOUS
  <2>2. PICK a : a = [Idle EXCEPT !.at = "done", !.outcome = "stored", !.payload = p]
    OBVIOUS
  <2>3. /\ s \in AnyLayer /\ alloc.client \in AnyLayer /\ override \in Layers
        /\ override \in AnyLayer /\ Empty \in AnyLayer
    BY <1>1, <1>2, LayersRead DEF PresetInv, PresetTyped, AnyLayer
  <2>4. alloc' = a /\ a.at = "done" /\ a.outcome = "stored" /\ a.payload = p
    BY <1>5, <2>1, <2>2 DEF Ends, Idle
  <2>5. p \in Payloads
    BY <2>1, <2>3 DEF Payloads
  <2>6. PresetTyped'
    BY <1>2, <2>2, <2>3, <2>4, <2>5 DEF PresetTyped, Idle
  <2>7. Flat(p) = LastWins(s, alloc.client, override)
    BY <2>1, <2>3, LayersKnown, LastLayerWins
  <2>8. saves <= 1 => Fits(Flat(p))
    <3>1. CASE saves = 0
      BY <1>1, <1>2, <2>7, <3>1 DEF InForce, Fits
    <3>2. CASE saves = 1
      BY <1>1, <1>2, <2>7, <3>2 DEF PresetInv, EditedOnce
    <3> QED
      BY <1>2, <3>1, <3>2
  <2>9. saves' <= 1 => Fits(Flat(alloc.payload))'
    BY <1>2, <2>4, <2>8 DEF Fits, Flat
  <2>10. OneDefault' /\ ChosenExists'
    BY <1>2, RowsUnchanged
  <2> QED
    BY <2>4, <2>6, <2>9, <2>10 DEF PresetInv, Running, FailuresNeedAnEdit
<1> QED
  BY <1>1, <1>3, <1>4, <1>5 DEF ResolvePayload

----------------------------------------------------------------------------
(***************************************************************************)
(* The theorems                                                            *)
(***************************************************************************)
LEMMA PresetStep == PresetInv /\ [Next]_vars => PresetInv'
PROOF
<1> SUFFICES ASSUME PresetInv, [Next]_vars PROVE PresetInv'
  OBVIOUS
<1>1. CASE Allocate
  BY <1>1, LockRoomKept, ReadDefaultKept, ReadPresetKept, ResolvePayloadKept DEF Allocate
<1>2. CASE Administer
  BY <1>2, SavePresetKept, DeletePresetKept, ChoosePresetKept, SaveRoomKept DEF Administer
<1>3. CASE UNCHANGED vars
  <2>1. UNCHANGED <<preset, chosen, override, alloc, saves, moments>>
    BY <1>3 DEF vars
  <2>2. /\ OneDefault' /\ ChosenExists' /\ InForce' = InForce
        /\ SystemLayer' = SystemLayer /\ ClientLayer' = ClientLayer
    BY <2>1, RowsUnchanged
  <2>3. PresetTyped' /\ Running' = Running /\ Stored' = Stored
    BY <2>1 DEF PresetInv, PresetTyped, Running, Stored
  <2>4. Running /\ saves = 0 => Unedited'
    BY <2>1, <2>2 DEF PresetInv, Unedited
  <2>5. Running /\ saves = 1 => EditedOnce'
    BY <2>1, <2>2 DEF PresetInv, EditedOnce, HeldExists, HeldPreset, LastWins, Fits
  <2>6. Stored /\ saves <= 1 => Fits(Flat(alloc.payload))'
    BY <2>1 DEF PresetInv, Fits, Flat
  <2>7. FailuresNeedAnEdit'
    BY <2>1 DEF PresetInv, FailuresNeedAnEdit
  <2>8. /\ alloc.at \in {"preset", "payload"} =>
               alloc.system = SystemLayer' \/ Valid(SystemLayer')
        /\ alloc.at = "payload" => Configured(alloc.system, alloc.client, override)'
    BY <2>1, <2>2 DEF PresetInv, Configured, Resolvable, Valid
  <2> QED
    BY <2>1, <2>2, <2>3, <2>4, <2>5, <2>6, <2>7, <2>8 DEF PresetInv
<1> QED
  BY <1>1, <1>2, <1>3 DEF Next

LEMMA PresetInvariant == Spec => []PresetInv
PROOF
  BY PresetsBegin, PresetStep, PTL DEF Spec

\* PayloadWasInForce: provision() stores a configuration that was in force for
\* the client and room at one moment, if no more than one row it is read from is
\* saved meanwhile and the client's preset is not the system default too.
THEOREM StoredPayloadWasInForce == Spec => []PayloadWasInForce
PROOF
<1>1. PresetInv => PayloadWasInForce
  BY DEF PresetInv, PayloadWasInForce, Fits
<1> QED
  BY <1>1, PresetInvariant, PTL

\* FieldsWereInForce: even when that one save changes the system default and the
\* client's preset at once, no field of the payload has a value nobody meant.
THEOREM StoredFieldsWereInForce == Spec => []FieldsWereInForce
PROOF
<1>1. PresetInv => FieldsWereInForce
  BY DEF PresetInv, FieldsWereInForce, Fits
<1> QED
  BY <1>1, PresetInvariant, PTL

\* FailuresNeedAnEdit: what configured() found eligible resolves again in
\* provision(), unless an administrator saves meanwhile; the client's preset is
\* gone only after two edits.
THEOREM EligibleRoomsResolve == Spec => []FailuresNeedAnEdit
PROOF
<1>1. PresetInv => FailuresNeedAnEdit
  BY DEF PresetInv
<1> QED
  BY <1>1, PresetInvariant, PTL
=============================================================================
