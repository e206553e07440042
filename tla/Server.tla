------------------------------- MODULE Server -------------------------------
(***************************************************************************)
(* The jobs manager of hw3/wet/server.c: the main thread accepts           *)
(* connections and queues them with add_request under one of the four     *)
(* overload policies; worker threads take them with get_request, handle    *)
(* and close them, and report with notify_request_finished.  The waiting   *)
(* sessions live in a cyclic_queue_t of max_accepted_count slots.          *)
(*                                                                         *)
(* Every section of code between pthread_mutex_lock and the matching      *)
(* unlock or pthread_cond_wait touches the shared state only under the     *)
(* mutex, so it is one atomic step.  A thread in pthread_cond_wait is in a *)
(* wait state; a signal moves one waiter to "woken", from where it takes   *)
(* the mutex again and re-tests its while condition.  Waiters may also     *)
(* wake spuriously, as POSIX allows.  A session is its connection_fd:      *)
(* connection c is the c-th one Accept returned.                           *)
(***************************************************************************)
EXTENDS Integers, FiniteSets, Sequences

CONSTANTS
  Workers,     \* the request_handle_thread threads
  QueueSize,   \* the queue_size argument: max_accepted_count and queue->size
  SchedAlgs,   \* the schedalg arguments explored
  MaxConns     \* connections a client opens in one behaviour

BLOCK == "block"
DROP_TAIL == "dt"
DROP_HEAD == "dh"
DROP_RANDOM == "random"
HEAD == "head"
TAIL == "tail"

Conns == 1 .. MaxConns
NoConn == 0                \* a session_t that was never written
Slots == 0 .. QueueSize - 1

ASSUME /\ QueueSize >= 1 /\ MaxConns >= 1
       /\ SchedAlgs \subseteq {BLOCK, DROP_TAIL, DROP_HEAD, DROP_RANDOM}

VARIABLES
  schedalg,       \* jobs_manager->schedalg
  waiting_jobs,   \* the cyclic queue: [head, tail, a] with a the elements_array
  waiting_count,  \* jobs_manager->waiting_count
  running_count,  \* jobs_manager->running_count
  accepted,       \* connections accepted so far
  mpc, msess,     \* main thread: "accept", or waiting on produce with msess
  wpc, wsess,     \* each worker's place and the session it holds
  closes          \* connection -> number of Close calls on its fd

vars == <<schedalg, waiting_jobs, waiting_count, running_count, accepted,
          mpc, msess, wpc, wsess, closes>>

(***************************************************************************)
(* The cyclic queue.                                                       *)
(***************************************************************************)
(* add_queue_element: when the queue is full the element is not stored.   *)
(* queue->tail == queue->size - 1 compares a ssize_t with a size_t: -1     *)
(* becomes SIZE_MAX and never equals size - 1.                             *)
AddQueueElement(q, e) ==
  IF q.tail + 1 = q.head \/ (q.head = 0 /\ q.tail = QueueSize - 1) THEN q
  ELSE LET t == (q.tail + 1) % QueueSize
       IN [q EXCEPT !.head = IF @ = -1 THEN 0 ELSE @, !.tail = t, !.a[t] = e]

(* Mutant: the single-element case does not reset head and tail to -1. *)
RemoveQueueElementNoReset(q, type) ==
  IF q.head = -1 THEN [q |-> q, e |-> NoConn]
  ELSE [e |-> q.a[IF type = HEAD THEN q.head ELSE q.tail],
        q |-> IF type = HEAD THEN [q EXCEPT !.head = (@ + 1) % QueueSize]
              ELSE [q EXCEPT !.tail = IF @ = 0 THEN QueueSize - 1 ELSE @ - 1]]

(* remove_queue_element: the element at the chosen end, and the queue     *)
(* without it; an empty queue returns QUEUE_IS_EMPTY and writes nothing.   *)
RemoveQueueElement(q, type) ==
  IF q.head = -1 THEN [q |-> q, e |-> NoConn]
  ELSE [e |-> q.a[IF type = HEAD THEN q.head ELSE q.tail],
        q |-> CASE q.head = q.tail -> [q EXCEPT !.head = -1, !.tail = -1]
                [] type = HEAD -> [q EXCEPT !.head = (@ + 1) % QueueSize]
                [] OTHER -> [q EXCEPT !.tail = IF @ = 0 THEN QueueSize - 1 ELSE @ - 1]]

(* The sessions from head to tail, oldest first. *)
QueueContents(q) ==
  IF q.head = -1 THEN <<>>
  ELSE [i \in 1 .. ((q.tail - q.head) % QueueSize) + 1 |-> q.a[(q.head + i - 1) % QueueSize]]

(***************************************************************************)
(* The overload policies.                                                  *)
(***************************************************************************)
(* random_drop_connections removes ceil(n / 2) sessions, each from the    *)
(* head or the tail as rand() % 2 decides, and closes each one.            *)
(* Mutant: floor(n / 2) sessions removed. *)
RemoveCountFloor(n) == n \div 2

RemoveCount(n) == IF n % 2 = 0 THEN n \div 2 ELSE n \div 2 + 1

RECURSIVE RemoveEach(_, _)
RemoveEach(q, ends) ==
  IF ends = <<>> THEN [q |-> q, es |-> <<>>]
  ELSE LET r == RemoveQueueElement(q, Head(ends))
           rest == RemoveEach(r.q, Tail(ends))
       IN [q |-> rest.q, es |-> <<r.e>> \o rest.es]

(* Close on every fd of the sequence es. *)
CloseAll(es) ==
  [c \in DOMAIN closes |-> closes[c] + Cardinality({i \in DOMAIN es : es[i] = c})]

(* pthread_cond_signal: wakes one waiter, if any. *)
Signal(pc, waitst) ==
  IF \E t \in DOMAIN pc : pc[t] = waitst
  THEN \E t \in {u \in DOMAIN pc : pc[u] = waitst} : pc' = [pc EXCEPT ![t] = "woken"]
  ELSE pc' = pc

SignalConsume == Signal(wpc, "waiting")

(* Mutant: notify_request_finished does not signal produce. *)
SignalProduceMissing == mpc' = mpc

SignalProduce ==
  IF mpc = "blocked" THEN mpc' = "woken" ELSE mpc' = mpc

Full == waiting_count + running_count = QueueSize

(* The tail of add_request: queue the session, count it, wake a worker.   *)
Admit(q, w, c) ==
  /\ waiting_jobs' = AddQueueElement(q, c)
  /\ waiting_count' = w + 1
  /\ SignalConsume

(***************************************************************************)
(* The main thread.                                                        *)
(***************************************************************************)
(* Accept returns the next connection and add_request runs on it up to    *)
(* its unlock or its first pthread_cond_wait.                              *)
Accept ==
  LET c == accepted + 1
      q == waiting_jobs
  IN /\ mpc = "accept" /\ accepted < MaxConns
     /\ accepted' = c
     /\ \/ /\ schedalg = BLOCK /\ Full
           /\ mpc' = "blocked" /\ msess' = c
           /\ UNCHANGED <<waiting_jobs, waiting_count, wpc, closes>>
        \/ /\ schedalg # BLOCK /\ Full
           /\ waiting_count = 0 \/ schedalg = DROP_TAIL
           /\ closes' = CloseAll(<<c>>)
           /\ UNCHANGED <<mpc, msess, waiting_jobs, waiting_count, wpc>>
        \/ /\ schedalg = DROP_HEAD /\ Full /\ waiting_count # 0
           /\ LET r == RemoveQueueElement(q, HEAD)
              IN /\ closes' = CloseAll(<<r.e>>)
                 /\ Admit(r.q, waiting_count - 1, c)
           /\ UNCHANGED <<mpc, msess>>
        \/ /\ schedalg = DROP_RANDOM /\ Full /\ waiting_count # 0
           /\ \E ends \in [1 .. RemoveCount(waiting_count) -> {HEAD, TAIL}] :
                LET r == RemoveEach(q, ends)
                IN /\ closes' = CloseAll(r.es)
                   /\ Admit(r.q, waiting_count - RemoveCount(waiting_count), c)
           /\ UNCHANGED <<mpc, msess>>
        \/ /\ ~Full
           /\ Admit(q, waiting_count, c)
           /\ UNCHANGED <<mpc, msess, closes>>
  /\ UNCHANGED <<schedalg, running_count, wsess>>

(* Back from pthread_cond_wait(&produce): the while condition again. *)
MainWakes ==
  /\ mpc = "woken"
  /\ IF Full
     THEN mpc' = "blocked" /\ UNCHANGED <<waiting_jobs, waiting_count, wpc, msess>>
     ELSE /\ Admit(waiting_jobs, waiting_count, msess)
          /\ mpc' = "accept" /\ msess' = NoConn
  /\ UNCHANGED <<schedalg, running_count, accepted, wsess, closes>>

(***************************************************************************)
(* The workers: request_handle_thread.                                     *)
(***************************************************************************)
(* Mutant: get_request does not count the session as running. *)
GetRequestNoRunning(w) ==
  /\ wpc[w] \in {"get", "woken"}
  /\ IF waiting_count = 0
     THEN wpc' = [wpc EXCEPT ![w] = "waiting"]
          /\ UNCHANGED <<waiting_jobs, waiting_count, running_count, wsess>>
     ELSE LET r == RemoveQueueElement(waiting_jobs, HEAD)
          IN /\ waiting_jobs' = r.q
             /\ wsess' = [wsess EXCEPT ![w] = r.e]
             /\ waiting_count' = waiting_count - 1
             /\ running_count' = running_count
             /\ wpc' = [wpc EXCEPT ![w] = "busy"]
  /\ UNCHANGED <<schedalg, accepted, mpc, msess, closes>>

(* Mutant: get_request takes the newest session, from the tail. *)
GetRequestTail(w) ==
  /\ wpc[w] \in {"get", "woken"}
  /\ IF waiting_count = 0
     THEN wpc' = [wpc EXCEPT ![w] = "waiting"]
          /\ UNCHANGED <<waiting_jobs, waiting_count, running_count, wsess>>
     ELSE LET r == RemoveQueueElement(waiting_jobs, TAIL)
          IN /\ waiting_jobs' = r.q
             /\ wsess' = [wsess EXCEPT ![w] = r.e]
             /\ waiting_count' = waiting_count - 1
             /\ running_count' = running_count + 1
             /\ wpc' = [wpc EXCEPT ![w] = "busy"]
  /\ UNCHANGED <<schedalg, accepted, mpc, msess, closes>>

(* get_request, entered afresh or back from pthread_cond_wait(&consume). *)
GetRequest(w) ==
  /\ wpc[w] \in {"get", "woken"}
  /\ IF waiting_count = 0
     THEN wpc' = [wpc EXCEPT ![w] = "waiting"]
          /\ UNCHANGED <<waiting_jobs, waiting_count, running_count, wsess>>
     ELSE LET r == RemoveQueueElement(waiting_jobs, HEAD)
          IN /\ waiting_jobs' = r.q
             /\ wsess' = [wsess EXCEPT ![w] = r.e]
             /\ waiting_count' = waiting_count - 1
             /\ running_count' = running_count + 1
             /\ wpc' = [wpc EXCEPT ![w] = "busy"]
  /\ UNCHANGED <<schedalg, accepted, mpc, msess, closes>>

(* requestHandle and Close, outside the mutex. *)
HandleRequest(w) ==
  /\ wpc[w] = "busy"
  /\ closes' = CloseAll(<<wsess[w]>>)
  /\ wpc' = [wpc EXCEPT ![w] = "notify"]
  /\ wsess' = [wsess EXCEPT ![w] = NoConn]
  /\ UNCHANGED <<schedalg, waiting_jobs, waiting_count, running_count, accepted, mpc, msess>>

(* notify_request_finished *)
NotifyRequestFinished(w) ==
  /\ wpc[w] = "notify"
  /\ running_count' = running_count - 1
  /\ SignalProduce
  /\ wpc' = [wpc EXCEPT ![w] = "get"]
  /\ UNCHANGED <<schedalg, waiting_jobs, waiting_count, accepted, msess, wsess, closes>>

(* pthread_cond_wait may return without a signal. *)
SpuriousWakeup ==
  \/ /\ mpc = "blocked" /\ mpc' = "woken"
     /\ UNCHANGED <<schedalg, waiting_jobs, waiting_count, running_count, accepted,
                    msess, wpc, wsess, closes>>
  \/ \E w \in Workers :
       /\ wpc[w] = "waiting" /\ wpc' = [wpc EXCEPT ![w] = "woken"]
       /\ UNCHANGED <<schedalg, waiting_jobs, waiting_count, running_count, accepted,
                      mpc, msess, wsess, closes>>

(* Once every connection of the behaviour is in, main stays in Accept. *)
AcceptBlocks ==
  /\ mpc = "accept" /\ accepted = MaxConns
  /\ UNCHANGED vars

(* init_jobs_manager: counts zero, the queue empty (head = tail = -1) over *)
(* a malloc'ed array never written, every worker entering get_request.     *)
Init ==
  /\ schedalg \in SchedAlgs
  /\ waiting_jobs = [head |-> -1, tail |-> -1, a |-> [i \in Slots |-> NoConn]]
  /\ waiting_count = 0 /\ running_count = 0
  /\ accepted = 0
  /\ mpc = "accept" /\ msess = NoConn
  /\ wpc = [w \in Workers |-> "get"] /\ wsess = [w \in Workers |-> NoConn]
  /\ closes = [c \in {NoConn} \cup Conns |-> 0]

Next ==
  \/ Accept
  \/ MainWakes
  \/ \E w \in Workers : GetRequest(w) \/ HandleRequest(w) \/ NotifyRequestFinished(w)
  \/ SpuriousWakeup
  \/ AcceptBlocks

(* Threads are scheduled by the OS and a thread waiting for the mutex     *)
(* eventually gets it; a spurious wakeup is never owed to anyone, and a    *)
(* client never owes the server a connection.                              *)
Fairness ==
  /\ WF_vars(MainWakes)
  /\ \A w \in Workers : WF_vars(GetRequest(w) \/ HandleRequest(w) \/ NotifyRequestFinished(w))

Spec == Init /\ [][Next]_vars /\ Fairness

(***************************************************************************)
(* Properties.                                                             *)
(***************************************************************************)
Held == {wsess[w] : w \in {u \in Workers : wpc[u] = "busy"}}
Queued == LET Q == QueueContents(waiting_jobs) IN {Q[i] : i \in DOMAIN Q}

TypeOK ==
  /\ schedalg \in SchedAlgs
  /\ waiting_jobs \in [head : -1 .. QueueSize - 1, tail : -1 .. QueueSize - 1,
                       a : [Slots -> {NoConn} \cup Conns]]
  /\ waiting_count \in Nat /\ running_count \in Nat
  /\ accepted \in 0 .. MaxConns
  /\ mpc \in {"accept", "blocked", "woken"} /\ msess \in {NoConn} \cup Conns
  /\ wpc \in [Workers -> {"get", "waiting", "woken", "busy", "notify"}]
  /\ wsess \in [Workers -> {NoConn} \cup Conns]
  /\ closes \in [{NoConn} \cup Conns -> Nat]

(* The counters agree with the queue and the threads (waiting_count is    *)
(* the queue's length, running_count the workers between get_request and   *)
(* notify_request_finished), the manager never holds more than             *)
(* max_accepted_count sessions, and the queue keeps arrival order.         *)
QueueConsistent ==
  LET Q == QueueContents(waiting_jobs)
  IN /\ Len(Q) = waiting_count
     /\ running_count = Cardinality({w \in Workers : wpc[w] \in {"busy", "notify"}})
     /\ waiting_count + running_count <= QueueSize
     /\ \A i \in 1 .. Len(Q) - 1 : Q[i] < Q[i + 1]

(* Every accepted connection is in exactly one place (held by main while  *)
(* it waits on produce, queued, held by a worker, or closed), and no fd is *)
(* closed twice or closed without having been accepted.                    *)
ConnectionsAccounted ==
  /\ closes[NoConn] = 0
  /\ \A c \in Conns :
       LET places == (IF mpc # "accept" /\ msess = c THEN 1 ELSE 0)
                     + Cardinality({i \in DOMAIN QueueContents(waiting_jobs) :
                                      QueueContents(waiting_jobs)[i] = c})
                     + Cardinality({w \in Workers : wpc[w] = "busy" /\ wsess[w] = c})
                     + closes[c]
       IN places = IF c <= accepted THEN 1 ELSE 0

(* Every accepted connection is eventually closed: queued sessions are    *)
(* taken by a worker, and main blocked on a full manager gets back in.     *)
EveryConnectionClosed == \A c \in Conns : (accepted >= c) ~> (closes[c] > 0)

(* The jobs manager as its contract sees it: the cyclic array read from   *)
(* head to tail is the FIFO of pending sessions, the busy workers' fds are *)
(* the sessions in service, the workers about to report are the served    *)
(* sessions whose slot is not yet free, and main blocked on produce holds *)
(* the connection waiting outside.                                         *)
Manager == INSTANCE JobsManagerSpec WITH
  Capacity  <- QueueSize,
  Policies  <- SchedAlgs,
  None      <- NoConn,
  policy    <- schedalg,
  arrived   <- accepted,
  outside   <- IF mpc = "accept" THEN NoConn ELSE msess,
  pending   <- QueueContents(waiting_jobs),
  serving   <- Held,
  finishing <- Cardinality({w \in Workers : wpc[w] = "notify"}),
  closed    <- {c \in Conns : closes[c] > 0}

(* add_request, get_request, the worker's Close and                        *)
(* notify_request_finished together implement the contract: sessions are *)
(* served first in, first out, at most max_accepted_count are held at     *)
(* once, a full manager closes exactly the connections its policy names   *)
(* (for random, ceil(n/2) taken off the two ends), and pending work is    *)
(* eventually served.                                                      *)
ManagerRefined == Manager!ASpec

====
