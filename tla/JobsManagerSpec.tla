--------------------------- MODULE JobsManagerSpec ---------------------------
(***************************************************************************)
(* What server.c's jobs manager promises, without threads, condition      *)
(* variables or the cyclic array: connections arrive in order; at most     *)
(* Capacity of them are held at once (pending, in service, or served but   *)
(* not yet reported); pending sessions are served first in, first out;    *)
(* when the manager is full the policy decides which connections are      *)
(* closed unserved, and under "block" the newest one waits outside.       *)
(***************************************************************************)
EXTENDS Integers, FiniteSets, Sequences

CONSTANTS
  Capacity,   \* max_accepted_count
  Policies,   \* the schedalg values
  MaxConns,   \* connections in one behaviour
  None        \* no connection

Conns == 1 .. MaxConns

VARIABLES
  policy,     \* the overload policy, fixed at start
  arrived,    \* connections that have arrived so far
  outside,    \* the connection waiting for room under "block", or None
  pending,    \* sessions waiting, oldest first
  serving,    \* sessions being served
  finishing,  \* sessions served and closed whose slot is not yet free
  closed      \* connections closed, served or not

avars == <<policy, arrived, outside, pending, serving, finishing, closed>>

Load == Len(pending) + Cardinality(serving) + finishing
Full == Load = Capacity

(* The order-preserving subsequences left when k sessions are taken off   *)
(* the two ends of s.                                                      *)
Middles(s, k) == {SubSeq(s, h + 1, h + Len(s) - k) : h \in 0 .. k}
Elems(s) == {s[i] : i \in DOMAIN s}

(* A connection arrives while nobody waits outside. *)
Arrive ==
  LET c == arrived + 1 IN
  /\ outside = None /\ arrived < MaxConns
  /\ arrived' = c
  /\ \/ /\ ~Full
        /\ pending' = Append(pending, c)
        /\ UNCHANGED <<outside, closed>>
     \/ /\ Full /\ policy = "block"
        /\ outside' = c
        /\ UNCHANGED <<pending, closed>>
     \/ /\ Full /\ policy # "block"
        /\ pending = <<>> \/ policy = "dt"
        /\ closed' = closed \cup {c}
        /\ UNCHANGED <<outside, pending>>
     \/ /\ Full /\ policy = "dh" /\ pending # <<>>
        /\ closed' = closed \cup {Head(pending)}
        /\ pending' = Append(Tail(pending), c)
        /\ UNCHANGED outside
     \/ /\ Full /\ policy = "random" /\ pending # <<>>
        /\ \E m \in Middles(pending, (Len(pending) + 1) \div 2) :
             /\ closed' = closed \cup (Elems(pending) \ Elems(m))
             /\ pending' = Append(m, c)
        /\ UNCHANGED outside
  /\ UNCHANGED <<policy, serving, finishing>>

(* The connection waiting outside gets in once there is room. *)
Enter ==
  /\ outside # None /\ ~Full
  /\ pending' = Append(pending, outside)
  /\ outside' = None
  /\ UNCHANGED <<policy, arrived, serving, finishing, closed>>

(* The oldest pending session is taken for service. *)
Start ==
  /\ pending # <<>>
  /\ serving' = serving \cup {Head(pending)}
  /\ pending' = Tail(pending)
  /\ UNCHANGED <<policy, arrived, outside, finishing, closed>>

(* A session is served and its connection closed. *)
Finish(c) ==
  /\ c \in serving
  /\ serving' = serving \ {c}
  /\ finishing' = finishing + 1
  /\ closed' = closed \cup {c}
  /\ UNCHANGED <<policy, arrived, outside, pending>>

(* The slot of a served session becomes free. *)
Release ==
  /\ finishing > 0
  /\ finishing' = finishing - 1
  /\ UNCHANGED <<policy, arrived, outside, pending, serving, closed>>

AInit ==
  /\ policy \in Policies
  /\ arrived = 0 /\ outside = None
  /\ pending = <<>> /\ serving = {} /\ finishing = 0 /\ closed = {}

ANext == Arrive \/ Enter \/ Start \/ (\E c \in Conns : Finish(c)) \/ Release

(* Pending work is taken, served work is finished and released, and a    *)
(* connection outside gets in when room stays free.                        *)
ASpec ==
  /\ AInit /\ [][ANext]_avars
  /\ WF_avars(Start) /\ WF_avars(Enter) /\ WF_avars(Release)
  /\ \A c \in Conns : WF_avars(Finish(c))

====
