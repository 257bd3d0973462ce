---------------------------- MODULE MCPresetConfig ----------------------------
(***************************************************************************)
(* A small instance of PresetConfig: two presets, one other top-level      *)
(* field and two flags.                                                    *)
(***************************************************************************)
EXTENDS PresetConfig, TLC

Config(top, flags) == [top |-> top, config |-> flags]

\* Layers that set the meeting type, a flag or both; one that sets two flags;
\* one that sets nothing; and one that is not valid.
SomeLayers == {Empty,
               Config("meetingType" :> "scheduled", "MIC_OFF" :> "on"),
               Config("meetingType" :> "instant", <<>>),
               Config("bigMeeting" :> "on", "MIC_OFF" :> "off"),
               Config("bigMeeting" :> "off", "WAITING_ROOM" :> "on"),
               Config(<<>>, "MIC_OFF" :> "soon")}
=============================================================================
