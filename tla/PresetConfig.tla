----------------------------- MODULE PresetConfig -----------------------------
(***************************************************************************)
(* How the provider payload of a meeting is put together from the presets  *)
(* while administrators edit them.                                         *)
(*                                                                         *)
(* Sources: apps/rooms/configuration.py (validate_config, resolve_config), *)
(* apps/rooms/services.py (configured, reserve_specific_room),             *)
(* apps/meetings/services.py (provision), apps/rooms/admin.py,             *)
(* apps/integrations/admin.py.                                             *)
(*                                                                         *)
(* One allocation is followed, of one room for one client.  It resolves    *)
(* the configuration twice, once to see whether the room is eligible and   *)
(* once for the payload; every read of a row is a step.  The room row is   *)
(* locked throughout, the rows of the client and the presets are not.      *)
(***************************************************************************)
EXTENDS Naturals, FiniteSets

CONSTANTS
    Names,        \* MeetingConfigPreset rows
    NoPreset,
    TopFields,    \* top-level fields of a configuration, meetingType among them
    Flags,        \* fields of its nested "config" object
    Layers,       \* configurations considered: [top, config], partial functions
    DefaultType,  \* settings.DEFAULT_PROVIDER_MEETING_TYPE
    MaxSaves      \* bound: saves of administrators during the allocation

ASSUME FieldsAssumption ==
    /\ "meetingType" \in TopFields
    /\ TopFields \cap Flags = {}
    /\ IsFiniteSet(Names) /\ NoPreset \notin Names
    /\ DefaultType \in {"instant", "scheduled"}
    /\ \A l \in Layers : /\ DOMAIN l.top \subseteq TopFields
                         /\ DOMAIN l.config \subseteq Flags

VARIABLES
    preset,    \* per name: [layer, default], or Deleted
    chosen,    \* the client's default_preset
    override,  \* the room's default_meeting_config
    alloc,     \* the allocation
    saves,     \* how many saves committed while it runs
    moments    \* the configurations that were in force while it runs

vars == <<preset, chosen, override, alloc, saves, moments>>

Empty == [top |-> <<>>, config |-> <<>>]
Deleted == [layer |-> Empty, default |-> FALSE, exists |-> FALSE]
Preset(layer, default) == [layer |-> layer, default |-> default, exists |-> TRUE]

----------------------------------------------------------------------------
(***************************************************************************)
(* configuration.py                                                        *)
(***************************************************************************)
\* Every value is a member of the set its field allows.
Allowed(f) == IF f = "meetingType" THEN {"instant", "scheduled"} ELSE {"on", "off"}

Valid(l) == /\ \A f \in DOMAIN l.top : l.top[f] \in Allowed(f)
            /\ \A f \in DOMAIN l.config : l.config[f] \in Allowed(f)

\* dict.update: the entries of g, and those of f for other keys.
Updated(f, g) == [k \in DOMAIN f \cup DOMAIN g |->
                    IF k \in DOMAIN g THEN g[k] ELSE f[k]]

\* Defect: the flags of a later layer replace those of the earlier ones.
MergeReplacing(result, layer) ==
    [top    |-> Updated(result.top, layer.top),
     config |-> IF DOMAIN layer.config = {} THEN result.config ELSE layer.config]

\* result.update(layer), with the flags under "config" merged one by one.
Merge(result, layer) == [top    |-> Updated(result.top, layer.top),
                         config |-> Updated(result.config, layer.config)]

Base == [top |-> [f \in {"meetingType"} |-> DefaultType], config |-> <<>>]

\* Defect: the client's preset is merged after the room's configuration.
ResolveClientLast(system, client, room) ==
    Merge(Merge(Merge(Base, system), room), client)

Resolve(system, client, room) ==
    Merge(Merge(Merge(Base, system), client), room)

Resolvable(system, client, room) == Valid(system) /\ Valid(client) /\ Valid(room)

TypeOf(l) == l.top["meetingType"]

\* Defect: any configuration that resolves makes the room eligible.
ConfiguredAnyType(system, client, room) == Resolvable(system, client, room)

\* What configured() asks of the configuration.
Configured(system, client, room) ==
    /\ Resolvable(system, client, room)
    /\ TypeOf(Resolve(system, client, room)) = "instant"

----------------------------------------------------------------------------
(***************************************************************************)
(* The reference: the value of a field is that of the last layer to set it.*)
(***************************************************************************)
Fields == TopFields \cup Flags

ValueIn(l, f) == IF f \in DOMAIN l.top THEN l.top[f]
                 ELSE IF f \in DOMAIN l.config THEN l.config[f] ELSE "unset"

Sets(l, f) == f \in DOMAIN l.top \cup DOMAIN l.config

LastWins(system, client, room) ==
    [f \in Fields |-> IF Sets(room, f) THEN ValueIn(room, f)
                      ELSE IF Sets(client, f) THEN ValueIn(client, f)
                      ELSE IF Sets(system, f) THEN ValueIn(system, f)
                      ELSE ValueIn(Base, f)]

Flat(l) == [f \in Fields |-> ValueIn(l, f)]

----------------------------------------------------------------------------
\* MeetingConfigPreset.objects.filter(is_system_default=True).first()
SystemLayer ==
    IF \E n \in Names : preset[n].default
    THEN preset[CHOOSE n \in Names : preset[n].default].layer ELSE Empty

ClientLayer == IF chosen = NoPreset THEN Empty ELSE preset[chosen].layer

InForce == LastWins(SystemLayer, ClientLayer, override)

Idle == [at |-> "idle", chosen |-> NoPreset, system |-> Empty,
         client |-> Empty, payload |-> Empty, outcome |-> "none"]

\* Layers stored by an older release need not be valid.
Init ==
    /\ preset \in [Names -> {Preset(l, d) : l \in Layers, d \in BOOLEAN}]
    /\ Cardinality({n \in Names : preset[n].default}) <= 1
    /\ chosen \in Names \cup {NoPreset}
    /\ override \in Layers
    /\ alloc = Idle
    /\ saves = 0
    /\ moments = {}

(***************************************************************************)
(* The allocation, from the lock on the room row to the stored payload.    *)
(***************************************************************************)
Running == alloc.at \notin {"idle", "done"}

Ends(outcome, payload) ==
    alloc' = [Idle EXCEPT !.at = "done", !.outcome = outcome,
                          !.payload = payload]

\* The client row is read through locked.integration_client.
LockRoom ==
    /\ alloc.at = "idle"
    /\ alloc' = [alloc EXCEPT !.at = "default", !.chosen = chosen]
    /\ moments' = {InForce}
    /\ UNCHANGED <<preset, chosen, override, saves>>

ReadDefault ==
    /\ alloc.at = "default"
    /\ alloc' = [alloc EXCEPT !.at = "preset", !.system = SystemLayer]
    /\ UNCHANGED <<preset, chosen, override, saves, moments>>

\* client.default_preset is fetched once and stays with the client instance.
ReadPreset ==
    /\ alloc.at = "preset"
    /\ LET gone   == alloc.chosen # NoPreset /\ ~preset[alloc.chosen].exists
           client == IF alloc.chosen = NoPreset THEN Empty
                     ELSE preset[alloc.chosen].layer
       IN  \/ gone /\ Ends("INTERNAL_ERROR", Empty)
           \/ /\ ~gone
              /\ ~Configured(alloc.system, client, override)
              /\ Ends("ROOM_UNAVAILABLE", Empty)
           \/ /\ ~gone
              /\ Configured(alloc.system, client, override)
              /\ alloc' = [alloc EXCEPT !.at = "payload", !.client = client]
    /\ UNCHANGED <<preset, chosen, override, saves, moments>>

\* provision() resolves again; of the three layers only the system default is
\* read again.
ResolvePayload ==
    /\ alloc.at = "payload"
    /\ LET system  == SystemLayer
           payload == Resolve(system, alloc.client, override)
       IN  \/ /\ ~Resolvable(system, alloc.client, override)
              /\ Ends("INTERNAL_ERROR", Empty)
           \/ /\ Resolvable(system, alloc.client, override)
              /\ TypeOf(payload) = "scheduled"
              /\ Ends("PROVIDER_CONTRACT_UNCONFIRMED", Empty)
           \/ /\ Resolvable(system, alloc.client, override)
              /\ TypeOf(payload) # "scheduled"
              /\ Ends("stored", payload)
    /\ UNCHANGED <<preset, chosen, override, saves, moments>>

(***************************************************************************)
(* Administrators.  The forms refuse a configuration that is not valid, a  *)
(* second system default, and the deletion of a client's preset.  What is  *)
(* saved after the allocation is not followed.                             *)
(***************************************************************************)
Counted == /\ alloc.at # "done"
           /\ saves < MaxSaves
           /\ saves' = IF Running THEN saves + 1 ELSE saves
           /\ moments' = IF Running THEN moments \cup {InForce'} ELSE moments

SavePreset(n, l, default) ==
    /\ Valid(l)
    /\ default => \A p \in Names \ {n} : ~preset[p].default
    /\ preset' = [preset EXCEPT ![n] = Preset(l, default)]
    /\ UNCHANGED <<chosen, override, alloc>>
    /\ Counted

DeletePreset(n) ==
    /\ preset[n].exists
    /\ n # chosen
    /\ preset' = [preset EXCEPT ![n] = Deleted]
    /\ UNCHANGED <<chosen, override, alloc>>
    /\ Counted

ChoosePreset(c) ==
    /\ c \in {n \in Names : preset[n].exists} \cup {NoPreset}
    /\ chosen' = c
    /\ UNCHANGED <<preset, override, alloc>>
    /\ Counted

\* A save of the room waits for the lock of the allocation.
SaveRoom(l) ==
    /\ ~Running
    /\ Valid(l)
    /\ override' = l
    /\ UNCHANGED <<preset, chosen, alloc>>
    /\ Counted

Allocate == LockRoom \/ ReadDefault \/ ReadPreset \/ ResolvePayload

Administer ==
    \/ \E n \in Names : \/ \E l \in Layers, d \in BOOLEAN : SavePreset(n, l, d)
                        \/ DeletePreset(n)
    \/ \E c \in Names \cup {NoPreset} : ChoosePreset(c)
    \/ \E l \in Layers : SaveRoom(l)

Next == Allocate \/ Administer

Spec == Init /\ [][Next]_vars

----------------------------------------------------------------------------
Stored == alloc.outcome = "stored"

\* The payload a meeting is created with is the configuration that was in force
\* for its client and room at some moment of the allocation, although it is
\* read in pieces, if at most one of the rows it is made of is saved meanwhile
\* and the client's preset is not at the same time the system default.
PayloadWasInForce ==
    (Stored /\ saves <= 1 /\ ~\E n \in Names : n = chosen /\ preset[n].default)
        => Flat(alloc.payload) \in moments

\* Even when one save changes two layers at once, each field of the payload has
\* a value that was in force.
FieldsWereInForce ==
    (Stored /\ saves <= 1) =>
        \A f \in Fields : \E c \in moments : Flat(alloc.payload)[f] = c[f]

\* The check of eligibility protects the resolution that follows it: a request
\* is refused as unconfirmed, or fails, only if somebody edits meanwhile, and
\* it takes two edits to take the client's preset away under it.
FailuresNeedAnEdit ==
    /\ alloc.outcome = "PROVIDER_CONTRACT_UNCONFIRMED" => saves >= 1
    /\ alloc.outcome = "INTERNAL_ERROR" => saves >= 2

----------------------------------------------------------------------------
(***************************************************************************)
(* Inductive invariant, used by the proofs.                                *)
(***************************************************************************)
AnyLayer == Layers \cup {Empty}

Payloads == {Resolve(s, c, r) : s, c \in AnyLayer, r \in Layers} \cup {Empty}

PresetTyped ==
    /\ preset \in [Names -> [layer : AnyLayer, default : BOOLEAN, exists : BOOLEAN]]
    /\ chosen \in Names \cup {NoPreset}
    /\ override \in Layers
    /\ alloc \in [at : {"idle", "default", "preset", "payload", "done"},
                  chosen : Names \cup {NoPreset}, system : AnyLayer,
                  client : AnyLayer, payload : Payloads,
                  outcome : {"none", "stored", "ROOM_UNAVAILABLE", "INTERNAL_ERROR",
                             "PROVIDER_CONTRACT_UNCONFIRMED"}]
    /\ saves \in Nat

OneDefault == \A m, n \in Names : preset[m].default /\ preset[n].default => m = n

ChosenExists == chosen # NoPreset => preset[chosen].exists

\* The layer of the preset that was the client's when the room was locked.
HeldPreset == IF alloc.chosen = NoPreset THEN Empty ELSE preset[alloc.chosen].layer

HeldExists == alloc.chosen # NoPreset => preset[alloc.chosen].exists

\* What PayloadWasInForce and FieldsWereInForce ask of a payload.
Fits(p) ==
    /\ ~(\E n \in Names : n = chosen /\ preset[n].default) => p \in moments
    /\ \A f \in Fields : \E c \in moments : p[f] = c[f]

\* What was read is what there is, until the first edit.
Unedited ==
    /\ alloc.chosen = chosen
    /\ alloc.at \in {"preset", "payload"} => alloc.system = SystemLayer
    /\ alloc.at = "payload" => alloc.client = ClientLayer

\* After one edit, what the allocation would store now.
EditedOnce ==
    /\ alloc.at \in {"default", "preset"} =>
          HeldExists /\ LastWins(SystemLayer, HeldPreset, override) \in moments
    /\ alloc.at = "payload" => Fits(LastWins(SystemLayer, alloc.client, override))

PresetInv ==
    /\ PresetTyped /\ OneDefault /\ ChosenExists
    /\ alloc.at = "idle" => saves = 0 /\ alloc = Idle
    /\ Running => InForce \in moments
    /\ Running /\ saves = 0 => Unedited
    /\ Running /\ saves = 1 => EditedOnce
    /\ alloc.at \in {"preset", "payload"} =>
          alloc.system = SystemLayer \/ Valid(SystemLayer)
    /\ alloc.at = "payload" => Configured(alloc.system, alloc.client, override)
    /\ alloc.at # "done" => alloc.outcome = "none"
    /\ Stored /\ saves <= 1 => Fits(Flat(alloc.payload))
    /\ FailuresNeedAnEdit
=============================================================================
