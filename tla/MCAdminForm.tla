---------------------------- MODULE MCAdminForm ----------------------------
(***************************************************************************)
(* Small instances of MeetingAdminForm for TLC.                            *)
(***************************************************************************)
EXTENDS MeetingAdminForm, TLC

CONSTANTS r1, m1, m2, w1

FormRequests == {[info |-> "a", date |-> 0, slot |-> [start |-> 1, end |-> 3]]}
FormAnswers == {Response(200, FullBody), Response(429, NoBody), Transport}
FormRank == [r \in {r1} |-> 1]
\* From these provision() does not transmit.
ClosedStatuses == Statuses \ OpenStatuses

FormLimit == [r \in {r1} |-> NoLimit]

MeetingSymmetry == Permutations(Meetings)
=============================================================================
