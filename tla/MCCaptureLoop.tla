---------------------------- MODULE MCCaptureLoop ----------------------------
(***************************************************************************)
(* Instances of CaptureLoop for TLC: the mappings between the objects of   *)
(* an instance, which a .cfg cannot write down, and what a phone uploads   *)
(* in one behaviour.  The objects are strings, so one mapping serves every *)
(* instance that uses some of them.                                        *)
(***************************************************************************)
EXTENDS CaptureAudit, TLC

CONSTANT Phones  \* what a phone may upload, one of these per behaviour

VARIABLE phone   \* the one of this behaviour

\* a1 seals segment s1; a2 is the same content filed under another name;
\* f1 is the phone's batch transcript of that content.
MCCaptureOf == [o \in Audio \cup Final |-> "c1"]
MCSegmentOf == [a \in Audio |-> IF a = "a1" /\ "s1" \in Partial THEN "s1"
                                ELSE NoSegment]
MCDeviceOf == [e \in Event |-> "d1"]

\* e1 and e2 carry one timestamp and differ in sequence; e3 is older than
\* both.  Uploads come in any order.
MCFixAt  == [e \in Event |-> IF e \in {"e1", "e2"} THEN 2 ELSE 1]
MCFixSeq == [e \in Event |-> IF e = "e2" THEN 2 ELSE 1]

\* Overlapping passes are interchangeable.
Passes == Permutations(Pass)

MCInit == Init /\ phone \in Phones

MCNext ==
  /\ Next
  /\ \A o \in Object \ phone : modified'[o] = 0
  /\ UNCHANGED phone

MCSpec == MCInit /\ [][MCNext]_<<vars, phone>> /\ \A p \in Pass : WF_vars(Step(p))
=============================================================================
