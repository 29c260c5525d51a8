---------------------------- MODULE EventStoreMC ----------------------------
(***************************************************************************)
(* Instances of EventStore for TLC.                                        *)
(***************************************************************************)
EXTENDS EventStore, TLC

CONSTANTS p1, p2, c1, c2, m1, m2

(* One process with two concurrent callers, or two processes with one.     *)
OneHome == (c1 :> p1) @@ (c2 :> p1)
TwoHomes == (c1 :> p1) @@ (c2 :> p2)

(* Appends with and without an expected version, a batch that names an    *)
(* aggregate twice between the events of another, and one that is empty.   *)
OneCalls ==
    {AppendCall(m1, NoVersion), AppendCall(m1, 1), BatchCall(<<m1, m2, m1>>),
     BatchCall(<<>>), CompactCall}
TwoCalls == {AppendCall(m1, 0), BatchCall(<<m2, m1>>), ArchiveCall(2)}
=============================================================================
