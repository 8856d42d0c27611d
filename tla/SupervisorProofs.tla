------------------------- MODULE SupervisorProofs -------------------------
(***************************************************************************)
(* Proofs that the committed log is enough to rebuild the supervisor's     *)
(* store, that live records and submits are backed by pending reconciles,  *)
(* and that nothing of the full-set route lags, for every set of facts,    *)
(* sequence numbers and snapshots and any number of inputs and crashes.    *)
(***************************************************************************)
EXTENDS Supervisor, AppRuntimeProofs, SequenceTheorems, WellFoundedInduction

---------------------------------------------------------------------------
(***************************************************************************)
(* The inductive invariant                                                 *)
(***************************************************************************)

Entry(seq, f) == [seq |-> seq, fact |-> f]

\* Sequence numbers are bound up to the last one consumed.
BoundBelow(st) ==
    \A s \in JournalSeq :
        st.bound[s] # None => st.last_consumed # None /\ s <= st.last_consumed

\* The log holds what is bound, and nothing else.
LoggedIsBound(log, st) ==
    \A s \in JournalSeq, f \in Fact :
        st.bound[s] = f <=> \E i \in DOMAIN log : log[i] = Entry(s, f)

\* A fact that is recorded as applied does more than ask for a reconcile, and
\* moved the applied position.
RecordedKinds(st) ==
    \A f \in Fact : st.fact_seq[f] # None => Kind[f] \in AppliedKind /\ st.last_applied # None

\* A pending fact that was consumed last is still pending.
LastIsOpen(st) ==
    \A s \in JournalSeq :
        s = st.last_consumed /\ st.bound[s] # None /\ Kind[st.bound[s]] = "Pending"
            => RefOf[st.bound[s]] \in st.pending

SubmitsOf(st) == {s \in JournalSeq : \E v \in DOMAIN LiveFact : st.bound[s] = LiveFact[v]}

SettledIn(st, submit, report) ==
    \E f \in Fact :
        /\ Kind[f] = "ReconcileTerminal"
        /\ TargetRef[f] = RefOf[st.bound[submit]]
        /\ st.fact_seq[f] = report

\* A submit is pending until a later report settles it.
OpenOrSettled(st) ==
    \A a \in SubmitsOf(st) :
        \/ RefOf[st.bound[a]] \in st.pending
        \/ \E c \in JournalSeq : a < c /\ c <= st.last_consumed /\ SettledIn(st, a, c)

SettledBetween(st) ==
    \A a, b \in SubmitsOf(st) :
        a < b => \E c \in JournalSeq : a < c /\ c < b /\ SettledIn(st, a, c)

\* What holds of the store a replay of the log leaves.
HistoryOK(log, st) ==
    /\ RuntimeOK(st)
    /\ BoundBelow(st)
    /\ LoggedIsBound(log, st)
    /\ RecordedKinds(st)
    /\ IsFiniteSet(st.pending)
    /\ LastIsOpen(st)
    /\ OpenOrSettled(st)
    /\ SettledBetween(st)

\* A replay that is accepted: it asked for a reconcile if anything is pending,
\* or if nothing was applied.
ReplayOK(log, end) ==
    /\ end = [st |-> end.st, required |-> end.required, ok |-> end.ok]
    /\ end.ok
    /\ HistoryOK(log, end.st)
    /\ end.required \/ end.st.pending = {}
    /\ end.required \/ end.st.last_applied # None \/ end.st.last_consumed = None

\* The baseline stands in for a journal position where there is none.
SamePosition(st, replayed) ==
    \/ st.last_consumed = replayed.last_consumed
    \/ st.last_consumed = 0 /\ replayed.last_consumed = None

\* The store in use and the replayed one.
Agrees(st, replayed) ==
    /\ st.version = replayed.version
    /\ st.bound = replayed.bound
    /\ st.fact_seq = replayed.fact_seq
    /\ SameDiscovery(st, replayed)
    /\ st.pending = replayed.pending
    /\ replayed.last_applied # None => st.last_applied # None
    /\ SamePosition(st, replayed)

\* Before the first reconcile nothing is pending, and what is consumed is
\* applied.
BeforeReconcile(st) ==
    ~st.first_reconcile =>
        /\ st.pending = {}
        /\ st.last_applied = None => st.last_consumed = None

SupField == {"st", "published", "dispatch", "queue", "log", "live", "evidence"}

IsSup(s) == s = [x \in SupField |-> s[x]]

QueuedInput == [seq : JournalSeq, fact : InputFact]

\* The entries of a queue are inputs, in the order of their sequence numbers.
QueueOK(queue) ==
    /\ queue \in Seq(QueuedInput)
    /\ \A i, j \in DOMAIN queue : i <= j => queue[i].seq <= queue[j].seq

\* A live record is of the current version and its submit is pending.
LiveOK(live, st) == \A v \in live : v = st.version /\ RefOf[LiveFact[v]] \in st.pending

IsDispatch(d) ==
    /\ d = [ready |-> d.ready, dirty |-> d.dirty]
    /\ \A r \in d.dirty : r = [version |-> r.version, domains |-> r.domains]

DispatchClean(d) == IsDispatch(d) /\ \A r \in d.dirty : ~Touches(r, "fullset")

\* The store in use.
StoreInUse(st, log) ==
    /\ RuntimeOK(st)
    /\ Agrees(st, ReplayPrefix(log).st)
    /\ BeforeReconcile(st)

\* Inputs that are still to be drained are not behind the last one consumed.
DrainOK(s, position) ==
    \A i \in AfterAnchor(s.queue, position) :
        s.st.last_consumed # None => s.st.last_consumed <= s.queue[i].seq

\* A supervisor that is up.
SupOK(s) ==
    /\ StoreInUse(s.st, s.log)
    /\ PublishedOK(s.published, s.st)
    /\ LiveOK(s.live, s.st)
    /\ DispatchClean(s.dispatch)

\* What a restart is told fits the log it replays.
SeedOK(log) ==
    seed # None =>
        /\ seed.pending = Cardinality(ReplayPrefix(log).st.pending)
        /\ LiveOK(seed.live, ReplayPrefix(log).st)

SupervisorInv ==
    /\ pc \in Stage
    /\ snapshot \in RemoteSnapshot
    /\ IsSup(sup)
    /\ QueueOK(sup.queue)
    /\ sup.log \in Seq(Input) /\ ReplayOK(sup.log, ReplayPrefix(sup.log))
    /\ Up => SupOK(sup)
    /\ Draining => DrainOK(sup, anchor)
    /\ ~Up => /\ sup = [NewSupervisor EXCEPT !.log = sup.log, !.queue = sup.queue]
              /\ SeedOK(sup.log)

---------------------------------------------------------------------------
(***************************************************************************)
(* Sequences and replays                                                   *)
(***************************************************************************)

\* A function that follows the recursion of ReplayPrefix up to a length.
Replays(g, history, n) ==
    g = [m \in 0..n |-> IF m = 0 THEN ReplayStart ELSE ReplayStep(g[m - 1], history[m])]

\* There is one for every length.
LEMMA ReplaysExists ==
    ASSUME NEW history, NEW n \in Nat
    PROVE  \E g : Replays(g, history, n)
<1> DEFINE Bad == {k \in Nat : ~\E g : Replays(g, history, k)}
<1>1. SUFFICES ASSUME Bad # {} PROVE FALSE
  OBVIOUS
<1>2. PICK k \in Bad : \A j \in Bad : k <= j
  <2>1. Bad \subseteq Nat
    OBVIOUS
  <2> HIDE DEF Bad
  <2> QED BY <1>1, <2>1, LeastNat
<1>3. k \in Nat /\ ~\E g : Replays(g, history, k)
  BY <1>2
<1>4. \A j \in Nat : j < k => \E g : Replays(g, history, j)
  BY <1>2, <1>3
<1>5. CASE k = 0
  <2> DEFINE g == [m \in 0..0 |-> ReplayStart]
  <2>1. Replays(g, history, 0)
    BY DEF Replays
  <2> QED BY <1>3, <1>5, <2>1
<1>6. CASE k # 0
  <2>1. k - 1 \in Nat /\ k - 1 < k
    BY <1>3, <1>6
  <2>2. PICK g : Replays(g, history, k - 1)
    BY <1>4, <2>1
  <2> DEFINE e == [m \in 0..k |-> IF m < k THEN g[m] ELSE ReplayStep(g[k - 1], history[k])]
  <2>3. \A m \in 0..(k - 1) :
            g[m] = IF m = 0 THEN ReplayStart ELSE ReplayStep(g[m - 1], history[m])
    BY <2>1, <2>2 DEF Replays
  <2>4. ASSUME NEW m \in 0..k
        PROVE  e[m] = IF m = 0 THEN ReplayStart ELSE ReplayStep(e[m - 1], history[m])
    <3>1. CASE m = k
      BY <1>3, <1>6, <2>1, <3>1
    <3>2. CASE m < k /\ m # 0
      <4>1. e[m] = g[m] /\ e[m - 1] = g[m - 1] /\ m \in 0..(k - 1)
        BY <1>3, <2>1, <3>2
      <4> QED BY <2>3, <3>2, <4>1
    <3>3. CASE m < k /\ m = 0
      BY <1>3, <2>1, <2>3, <3>3
    <3> QED BY <1>3, <3>1, <3>2, <3>3
  <2>5. Replays(e, history, k)
    BY <2>4 DEF Replays
  <2> QED BY <1>3, <2>5
<1> QED BY <1>5, <1>6

\* The function that ReplayPrefix chooses is one.
LEMMA ReplayPrefixUnfolds ==
    ASSUME NEW history, Len(history) \in Nat
    PROVE  \E g : Replays(g, history, Len(history)) /\ ReplayPrefix(history) = g[Len(history)]
<1> DEFINE prefix[n \in 0..Len(history)] ==
               IF n = 0 THEN ReplayStart ELSE ReplayStep(prefix[n - 1], history[n])
<1>1. ReplayPrefix(history) = prefix[Len(history)]
  BY DEF ReplayPrefix
<1>2. prefix = CHOOSE g : g = [n \in 0..Len(history) |->
                                   IF n = 0 THEN ReplayStart ELSE ReplayStep(g[n - 1], history[n])]
  BY DEF prefix
<1>3. \E g : Replays(g, history, Len(history))
  BY ReplaysExists
<1> HIDE DEF prefix
<1>4. Replays(prefix, history, Len(history))
  BY <1>2, <1>3 DEF Replays
<1> QED BY <1>1, <1>4

\* Replays of the same entries agree.
LEMMA ReplaysAgree ==
    ASSUME NEW h, NEW e, NEW n \in Nat, NEW m \in Nat, n <= m, \A i \in 1..n : h[i] = e[i],
           NEW g, Replays(g, h, n), NEW d, Replays(d, e, m)
    PROVE  g[n] = d[n]
<1> DEFINE Bad == {k \in 0..n : g[k] # d[k]}
<1>1. SUFFICES ASSUME Bad # {} PROVE FALSE
  OBVIOUS
<1>2. PICK k \in Bad : \A j \in Bad : k <= j
  <2>1. Bad \subseteq Nat
    OBVIOUS
  <2> HIDE DEF Bad
  <2> QED BY <1>1, <2>1, LeastNat
<1>3. k \in 0..n /\ k \in Nat /\ g[k] # d[k]
  BY <1>2
<1>4. \A j \in 0..n : j < k => g[j] = d[j]
  BY <1>2, <1>3
<1>5. \A i \in 0..n : g[i] = IF i = 0 THEN ReplayStart ELSE ReplayStep(g[i - 1], h[i])
  BY DEF Replays
<1>6. \A i \in 0..m : d[i] = IF i = 0 THEN ReplayStart ELSE ReplayStep(d[i - 1], e[i])
  BY DEF Replays
<1>7. k \in 0..m
  BY <1>3
<1>8. CASE k = 0
  BY <1>3, <1>5, <1>6, <1>7, <1>8
<1>9. CASE k # 0
  <2>1. k - 1 \in 0..n /\ k - 1 < k /\ k \in 1..n
    BY <1>3, <1>9
  <2>2. g[k - 1] = d[k - 1] /\ h[k] = e[k]
    BY <1>4, <2>1
  <2> QED BY <1>3, <1>5, <1>6, <1>7, <1>9, <2>2
<1> QED BY <1>8, <1>9

\* An empty history replays to a fresh store.
LEMMA ReplayOfNothing == ReplayPrefix(<<>>) = ReplayStart
<1>1. Len(<<>>) = 0
  OBVIOUS
<1>2. PICK g : Replays(g, <<>>, 0) /\ ReplayPrefix(<<>>) = g[0]
  BY <1>1, ReplayPrefixUnfolds
<1> QED BY <1>2 DEF Replays

\* One more entry is one more step.
LEMMA ReplayOfAppend ==
    ASSUME NEW history \in Seq(Input), NEW input \in Input
    PROVE  ReplayPrefix(Append(history, input)) = ReplayStep(ReplayPrefix(history), input)
<1> DEFINE longer == Append(history, input)
           n      == Len(history)
<1>1. /\ n \in Nat /\ Len(longer) = n + 1
      /\ \A i \in 1..n : history[i] = longer[i]
      /\ longer[n + 1] = input
  OBVIOUS
<1>2. PICK g : Replays(g, history, n) /\ ReplayPrefix(history) = g[n]
  BY <1>1, ReplayPrefixUnfolds
<1>3. PICK d : Replays(d, longer, n + 1) /\ ReplayPrefix(longer) = d[n + 1]
  <2> HIDE DEF longer, n
  <2>1. Len(longer) \in Nat
    BY <1>1
  <2>2. PICK d : Replays(d, longer, Len(longer)) /\ ReplayPrefix(longer) = d[Len(longer)]
    BY <2>1, ReplayPrefixUnfolds
  <2> QED BY <1>1, <2>2
<1> HIDE DEF longer, n
<1>4. g[n] = d[n]
  <2>1. n + 1 \in Nat /\ n <= n + 1
    BY <1>1
  <2> QED BY <1>1, <1>2, <1>3, <2>1, ReplaysAgree
<1>5. d[n + 1] = ReplayStep(d[n], longer[n + 1])
  <2>1. n + 1 \in 0..(n + 1) /\ n + 1 # 0 /\ (n + 1) - 1 = n
    BY <1>1
  <2> QED BY <1>3, <2>1 DEF Replays
<1> QED BY <1>1, <1>2, <1>3, <1>4, <1>5 DEF longer

---------------------------------------------------------------------------
(***************************************************************************)
(* The queue and the log                                                   *)
(***************************************************************************)

\* An entry that is not behind any other is appended.
LEMMA InsertedAtEnd ==
    ASSUME NEW log \in Seq(Input), NEW input \in Input,
           \A i \in DOMAIN log : log[i].seq <= input.seq
    PROVE  InsertBySeq(log, input) = Append(log, input)
<1> DEFINE n == Len(log)
<1>1. n \in Nat /\ DOMAIN log = 1..n
  OBVIOUS
<1>2. {i \in DOMAIN log : log[i].seq <= input.seq} = 1..n
  BY <1>1
<1>3. Cardinality(1..n) = n
  BY <1>1, FS_Interval
<1>4. InsertBySeq(log, input) = [i \in 1..(n + 1) |->
          IF i <= n THEN log[i] ELSE IF i = n + 1 THEN input ELSE log[i - 1]]
  BY <1>2, <1>3 DEF InsertBySeq
<1> DEFINE a == Append(log, input)
<1>5. /\ a \in Seq(Input) /\ Len(a) = n + 1
      /\ \A i \in 1..n : a[i] = log[i]
      /\ a[n + 1] = input
  BY AppendProperties
<1> HIDE DEF a
<1>6. a \in [1..(n + 1) -> Input]
  BY <1>5, LenProperties
<1>7. \A i \in 1..(n + 1) :
          a[i] = IF i <= n THEN log[i] ELSE IF i = n + 1 THEN input ELSE log[i - 1]
  BY <1>1, <1>5
<1> QED BY <1>4, <1>6, <1>7 DEF a

\* The entries of a sorted queue that are not greater than an input come first.
LEMMA NotGreaterComeFirst ==
    ASSUME NEW queue, QueueOK(queue), NEW input \in QueuedInput
    PROVE  \E m \in 0..Len(queue) :
               /\ Cardinality({i \in DOMAIN queue : queue[i].seq <= input.seq}) = m
               /\ \A i \in DOMAIN queue : queue[i].seq <= input.seq <=> i <= m
<1> DEFINE n     == Len(queue)
           Lower == {i \in DOMAIN queue : queue[i].seq <= input.seq}
           Upper == DOMAIN queue \ Lower
<1>1. n \in Nat /\ DOMAIN queue = 1..n /\ \A i \in DOMAIN queue : queue[i] \in QueuedInput
  BY DEF QueueOK
<1>2. /\ \A i \in DOMAIN queue : queue[i].seq \in Nat
      /\ input.seq \in Nat
  BY <1>1, ConstantsAssumption DEF QueuedInput
<1>3. \A i, j \in DOMAIN queue : i <= j => queue[i].seq <= queue[j].seq
  BY DEF QueueOK
<1>4. CASE Upper = {}
  <2>1. Lower = 1..n
    BY <1>1, <1>4
  <2>2. Cardinality(Lower) = n
    <3>1. Cardinality(1..n) = n
      BY <1>1, FS_Interval
    <3> QED BY <2>1, <3>1
  <2>3. n \in 0..n /\ \A i \in DOMAIN queue : queue[i].seq <= input.seq <=> i <= n
    BY <1>1, <1>4
  <2> QED BY <2>2, <2>3
<1>5. CASE Upper # {}
  <2>1. PICK k \in Upper : \A j \in Upper : k <= j
    <3>1. Upper \subseteq Nat
      BY <1>1
    <3> HIDE DEF Upper
    <3> QED BY <1>5, <3>1, LeastNat
  <2>2. k \in 1..n /\ k - 1 \in 0..n /\ ~(queue[k].seq <= input.seq)
    BY <1>1, <2>1
  <2>3. \A i \in DOMAIN queue : queue[i].seq <= input.seq <=> i <= k - 1
    <3>1. SUFFICES ASSUME NEW i \in DOMAIN queue
                   PROVE  queue[i].seq <= input.seq <=> i <= k - 1
      OBVIOUS
    <3>2. CASE i \in Upper
      BY <1>1, <2>1, <2>2, <3>2
    <3>3. CASE i \notin Upper
      <4>1. queue[i].seq <= input.seq
        BY <3>3
      <4>2. ~(k <= i)
        BY <1>1, <1>2, <1>3, <2>2, <4>1
      <4> QED BY <1>1, <2>2, <4>1, <4>2
    <3> QED BY <3>2, <3>3
  <2>4. Lower = 1..(k - 1)
    BY <1>1, <2>2, <2>3
  <2>5. Cardinality(Lower) = k - 1
    <3>1. k - 1 \in Nat
      BY <2>2
    <3>2. Cardinality(1..(k - 1)) = k - 1
      BY <3>1, FS_Interval
    <3> QED BY <2>4, <3>2
  <2> QED BY <2>2, <2>3, <2>5
<1> QED BY <1>4, <1>5

\* IngressQueue::push keeps the queue sorted.
LEMMA InsertKeepsQueue ==
    ASSUME NEW queue, QueueOK(queue), NEW input \in QueuedInput
    PROVE  QueueOK(InsertBySeq(queue, input))
<1> DEFINE n == Len(queue)
           r == InsertBySeq(queue, input)
<1>1. n \in Nat /\ DOMAIN queue = 1..n /\ \A i \in DOMAIN queue : queue[i] \in QueuedInput
  BY DEF QueueOK
<1>2. /\ \A i \in DOMAIN queue : queue[i].seq \in Nat
      /\ input.seq \in Nat
  BY <1>1, ConstantsAssumption DEF QueuedInput
<1>3. \A i, j \in DOMAIN queue : i <= j => queue[i].seq <= queue[j].seq
  BY DEF QueueOK
<1>4. PICK m \in 0..n :
          /\ Cardinality({i \in DOMAIN queue : queue[i].seq <= input.seq}) = m
          /\ \A i \in DOMAIN queue : queue[i].seq <= input.seq <=> i <= m
  BY NotGreaterComeFirst
<1>5. r = [i \in 1..(n + 1) |->
              IF i <= m THEN queue[i] ELSE IF i = m + 1 THEN input ELSE queue[i - 1]]
  BY <1>4 DEF InsertBySeq
<1> HIDE DEF r
<1>6. \A i \in 1..(n + 1) : r[i] \in QueuedInput
  BY <1>1, <1>4, <1>5
<1>7. r \in Seq(QueuedInput) /\ DOMAIN r = 1..(n + 1)
  <2>1. r \in [1..(n + 1) -> QueuedInput]
    BY <1>5, <1>6
  <2> QED BY <1>1, <2>1
<1>8. ASSUME NEW i \in DOMAIN r, NEW j \in DOMAIN r, i <= j
      PROVE  r[i].seq <= r[j].seq
  <2> USE <1>1, <1>2, <1>3, <1>4, <1>5, <1>7, <1>8
  <2>1. CASE j <= m
    BY <2>1
  <2>2. CASE j = m + 1
    BY <2>2
  <2>3. CASE j > m + 1
    <3>1. r[j] = queue[j - 1] /\ j - 1 \in DOMAIN queue /\ ~(j - 1 <= m)
      BY <2>3
    <3>2. CASE i <= m
      BY <3>1, <3>2
    <3>3. CASE i = m + 1
      BY <3>1, <3>3
    <3>4. CASE i > m + 1
      <4>1. r[i] = queue[i - 1] /\ i - 1 \in DOMAIN queue /\ i - 1 <= j - 1
        BY <3>4
      <4> QED BY <3>1, <4>1
    <3> QED BY <3>2, <3>3, <3>4
  <2> QED BY <2>1, <2>2, <2>3
<1> QED BY <1>7, <1>8 DEF QueueOK, r

\* A queue without one of its entries.
RemovedAt(r, queue, at) ==
    /\ r \in Seq(QueuedInput)
    /\ DOMAIN r = 1..(Len(queue) - 1)
    /\ \A i \in DOMAIN r : r[i] = IF i < at THEN queue[i] ELSE queue[i + 1]

\* IngressQueue::remove leaves the other entries in their order.
LEMMA RemoveFields ==
    ASSUME NEW queue \in Seq(QueuedInput), NEW n \in DOMAIN queue,
           NEW r, r = RemoveFirst(queue, queue[n])
    PROVE  \E at \in DOMAIN queue : RemovedAt(r, queue, at) /\ queue[at] = queue[n]
<1> DEFINE Same == {i \in DOMAIN queue : queue[i] = queue[n]}
           First(i) == queue[i] = queue[n] /\ \A j \in DOMAIN queue : queue[j] = queue[n] => i <= j
           at == CHOOSE i \in DOMAIN queue : First(i)
           len == Len(queue)
<1>1. len \in Nat /\ DOMAIN queue = 1..len /\ \A i \in 1..len : queue[i] \in QueuedInput
  OBVIOUS
<1>2. \E i \in DOMAIN queue : First(i)
  <2>1. Same \subseteq Nat /\ Same # {}
    BY <1>1
  <2>2. PICK k \in Same : \A j \in Same : k <= j
    <3> HIDE DEF Same
    <3> QED BY <2>1, LeastNat
  <2> QED BY <2>2
<1>3. at \in DOMAIN queue /\ queue[at] = queue[n]
  <2>1. at \in DOMAIN queue /\ First(at)
    <3> HIDE DEF First
    <3> QED BY <1>2
  <2> QED BY <2>1
<1>4. r = SubSeq(queue, 1, at - 1) \o SubSeq(queue, at + 1, len)
  BY DEF RemoveFirst
<1> HIDE DEF at
<1>5. at \in 1..len
  BY <1>1, <1>3
<1> DEFINE s == SubSeq(queue, 1, at - 1)
           t == SubSeq(queue, at + 1, len)
<1>6. s \in Seq(QueuedInput) /\ Len(s) = at - 1 /\ \A i \in 1..(at - 1) : s[i] = queue[i]
  BY <1>1, <1>5
<1>7. t \in Seq(QueuedInput) /\ Len(t) = len - at /\ \A i \in 1..(len - at) : t[i] = queue[at + i]
  <2>1. at + 1 \in Int /\ len \in Int /\ \A i \in (at + 1)..len : queue[i] \in QueuedInput
    BY <1>1, <1>5
  <2>2. /\ t \in Seq(QueuedInput)
        /\ Len(t) = IF at + 1 <= len THEN len - (at + 1) + 1 ELSE 0
        /\ \A i \in 1..(len - (at + 1) + 1) : t[i] = queue[(at + 1) + i - 1]
    BY <2>1, SubSeqProperties
  <2> QED BY <1>5, <2>2
<1> HIDE DEF s, t
<1>8. r \in Seq(QueuedInput) /\ Len(r) = len - 1
  <2>1. r \in Seq(QueuedInput) /\ Len(r) = Len(s) + Len(t)
    BY <1>4, <1>6, <1>7, ConcatProperties DEF s, t
  <2> QED BY <1>1, <1>5, <1>6, <1>7, <2>1
<1>9. ASSUME NEW i \in 1..(len - 1)
      PROVE  r[i] = IF i < at THEN queue[i] ELSE queue[i + 1]
  <2>1. r = s \o t
    BY <1>4 DEF s, t
  <2>2. CASE i < at
    <3>1. i \in 1..Len(s)
      BY <1>5, <1>6, <2>2
    <3> QED BY <1>5, <1>6, <1>7, <2>1, <2>2, <3>1
  <2>3. CASE ~(i < at)
    <3>1. i - Len(s) \in 1..Len(t) /\ i - Len(s) = i - at + 1 /\ at + (i - at + 1) = i + 1
      BY <1>1, <1>5, <1>6, <1>7, <2>3
    <3>2. r[i] = t[i - Len(s)]
      <4>1. i \in 1..(Len(s) + Len(t)) /\ ~(i <= Len(s))
        BY <1>1, <1>5, <1>6, <1>7, <2>3
      <4> QED BY <1>6, <1>7, <2>1, <4>1
    <3> QED BY <1>1, <1>5, <1>7, <2>3, <3>1, <3>2
  <2> QED BY <2>2, <2>3
<1>10. DOMAIN r = 1..(len - 1)
  BY <1>8
<1>11. RemovedAt(r, queue, at)
  BY <1>8, <1>9, <1>10 DEF RemovedAt
<1> QED BY <1>3, <1>11

---------------------------------------------------------------------------
(***************************************************************************)
(* What applying a fact under a fresh sequence number does                 *)
(***************************************************************************)

\* The pending reconciles after a fact that is not a duplicate.
PendingAfter(pending, f) ==
    IF Kind[f] = "Pending" THEN pending \cup {RefOf[f]}
    ELSE IF Kind[f] = "ReconcileTerminal" THEN pending \ {TargetRef[f]} ELSE pending

\* A hint closes at most the anchor it reports on, and is no reconcile.
LEMMA HintPending ==
    ASSUME NEW st \in StoreType, NEW f \in Fact, Kind[f] # "Pending", NEW r, r = ApplyHint(st, f)
    PROVE  r.pending = PendingAfter(st.pending, f) /\ r.first_reconcile = st.first_reconcile
<1>1. CASE Kind[f] = "ReconcileTerminal"
  <2> DEFINE cleared == [st EXCEPT !.pending = st.pending \ {TargetRef[f]}]
  <2>1. r = ApplyRestorePosture(cleared)
    BY <1>1 DEF ApplyHint, ClearPendingReconcile
  <2>2. /\ cleared \in StoreType /\ cleared.pending = st.pending \ {TargetRef[f]}
        /\ cleared.first_reconcile = st.first_reconcile
    BY DEF StoreType
  <2> HIDE DEF cleared
  <2> QED BY <1>1, <2>1, <2>2 DEF ApplyRestorePosture, ApplyPolicy, StoreType, PendingAfter
<1>2. CASE Kind[f] = "Discovery"
  BY <1>2 DEF ApplyHint, RecordFamilyDiscovery, StoreType, PendingAfter
<1>3. CASE Kind[f] \in {"Backfill", "BackfillComplete"}
  BY <1>3 DEF ApplyHint, RecordFamilyBackfill, StoreType, PendingAfter
<1>4. CASE Kind[f] = "Attention"
  BY <1>4 DEF ApplyHint, StoreType, PendingAfter
<1>5. CASE Kind[f] \notin {"Discovery", "Backfill", "BackfillComplete", "Attention",
                           "ReconcileTerminal"}
  BY <1>5 DEF ApplyHint, PendingAfter
<1> QED BY <1>1, <1>2, <1>3, <1>4, <1>5

\* A hint reads the discovery tables alone to change them.
LEMMA HintDiscovery ==
    ASSUME NEW a \in StoreType, NEW b \in StoreType, SameDiscovery(a, b), NEW f \in Fact
    PROVE  SameDiscovery(ApplyHint(a, f), ApplyHint(b, f))
<1> DEFINE m == FamilyOf[f]
<1>0. a.families = b.families /\ a.backfills = b.backfills
  BY DEF SameDiscovery
<1>1. CASE Kind[f] = "ReconcileTerminal"
  <2>1. ASSUME NEW st \in StoreType PROVE SameDiscovery(ApplyHint(st, f), st)
    <3> DEFINE cleared == [st EXCEPT !.pending = st.pending \ {TargetRef[f]}]
    <3>1. ApplyHint(st, f) = ApplyRestorePosture(cleared)
      BY <1>1 DEF ApplyHint, ClearPendingReconcile
    <3>2. cleared \in StoreType /\ SameDiscovery(cleared, st)
      BY DEF StoreType, SameDiscovery
    <3> HIDE DEF cleared
    <3> QED BY <3>1, <3>2 DEF ApplyRestorePosture, ApplyPolicy, StoreType, SameDiscovery
  <2> QED BY <2>1 DEF SameDiscovery
<1>2. CASE Kind[f] = "Discovery"
  <2> DEFINE record(st) ==
          LET kept  == IF st.families[m] = None THEN EmptyBackfill ELSE st.families[m]
              early == st.backfills[m]
          IN  IF early = None THEN kept
              ELSE RecordBackfill(kept, early.cursor, early.completed_at)
  <2>1. ASSUME NEW st \in StoreType
        PROVE  /\ ApplyHint(st, f).families = [st.families EXCEPT ![m] = record(st)]
               /\ ApplyHint(st, f).backfills = [st.backfills EXCEPT ![m] = None]
    <3>1. ApplyHint(st, f) = [st EXCEPT !.families = [st.families EXCEPT ![m] = record(st)],
                                        !.backfills = [st.backfills EXCEPT ![m] = None]]
      BY <1>2 DEF ApplyHint, RecordFamilyDiscovery
    <3> HIDE DEF record
    <3> QED BY <3>1 DEF StoreType
  <2>2. record(a) = record(b)
    BY <1>0
  <2> HIDE DEF record
  <2> QED BY <1>0, <2>1, <2>2 DEF SameDiscovery
<1>3. CASE Kind[f] \in {"Backfill", "BackfillComplete"}
  <2> DEFINE t == IF Kind[f] = "Backfill" THEN None ELSE ObservedAt[f]
             early(st) == IF st.backfills[m] = None THEN EmptyBackfill ELSE st.backfills[m]
             known(st) == RecordBackfill(st.families[m], f, t)
             parked(st) == RecordBackfill(early(st), f, t)
  <2>1. ASSUME NEW st \in StoreType
        PROVE  ApplyHint(st, f) =
                   IF st.families[m] # None
                   THEN [st EXCEPT !.families = [st.families EXCEPT ![m] = known(st)]]
                   ELSE [st EXCEPT !.backfills = [st.backfills EXCEPT ![m] = parked(st)]]
    BY <1>3 DEF ApplyHint, RecordFamilyBackfill
  <2>2. known(a) = known(b) /\ parked(a) = parked(b)
    BY <1>0
  <2> HIDE DEF known, parked
  <2>3. CASE a.families[m] # None
    BY <1>0, <2>1, <2>2, <2>3 DEF SameDiscovery, StoreType
  <2>4. CASE a.families[m] = None
    BY <1>0, <2>1, <2>2, <2>4 DEF SameDiscovery, StoreType
  <2> QED BY <2>3, <2>4
<1>4. CASE Kind[f] = "Attention"
  BY <1>4 DEF ApplyHint, StoreType, SameDiscovery
<1>5. CASE Kind[f] \notin {"Discovery", "Backfill", "BackfillComplete", "Attention",
                           "ReconcileTerminal"}
  BY <1>5 DEF ApplyHint, SameDiscovery
<1> QED BY <1>1, <1>2, <1>3, <1>4, <1>5

\* apply_input marks what the applier has marked already.
LEMMA ApplyInputIsApply ==
    ASSUME NEW st \in StoreType, NEW seq \in JournalSeq, NEW f \in Fact
    PROVE  ApplyInputStore(st, seq, f) = Apply(st, seq, f)
<1>1. CASE ApplyOutcome(st, seq, f) # "ReconcileRequired"
  BY <1>1 DEF ApplyInputStore
<1>2. CASE ApplyOutcome(st, seq, f) = "ReconcileRequired"
  <2> DEFINE consumed == ConsumeJournalSeq(st, seq, f)
             opened == IF Kind[f] = "Pending"
                       THEN [consumed EXCEPT !.pending = consumed.pending \cup {RefOf[f]}]
                       ELSE consumed
  <2>1. consumed \in StoreType
    BY ConsumeFields
  <2> HIDE DEF consumed
  <2>2. opened \in StoreType
    BY <2>1, ConstantsAssumption DEF StoreType
  <2>3. Apply(st, seq, f) = MarkReconcileRequired(opened)
    BY <1>2 DEF Apply, consumed
  <2> HIDE DEF opened
  <2>4. MarkReconcileRequired(MarkReconcileRequired(opened)) = MarkReconcileRequired(opened)
    BY <2>2 DEF MarkReconcileRequired, EnterReconciling, ApplyPolicy, StoreType
  <2> QED BY <1>2, <2>3, <2>4 DEF ApplyInputStore
<1> QED BY <1>1, <1>2

\* An applied fact moves the version and the applied position.
AppliedEffect(r, st, seq, f) ==
    /\ st.fact_seq[f] = None /\ Kind[f] \in AppliedKind
    /\ r.version = st.version + 1
    /\ r.last_applied = seq
    /\ r.fact_seq = [st.fact_seq EXCEPT ![f] = seq]
    /\ r.first_reconcile = st.first_reconcile
    /\ r.pending = PendingAfter(st.pending, f)

\* Every other outcome leaves them alone.
OtherEffect(r, st) ==
    /\ r.version = st.version
    /\ r.last_applied = st.last_applied
    /\ r.fact_seq = st.fact_seq
    /\ SameDiscovery(r, st)

\* What an apply under a sequence number it consumes does.
ApplyResult(r, st, seq, f) ==
    /\ r.last_consumed = seq
    /\ r.bound = [st.bound EXCEPT ![seq] = f]
    /\ \/ /\ ApplyOutcome(st, seq, f) = "Applied"
          /\ AppliedEffect(r, st, seq, f)
          /\ \E c \in StoreType : SameDiscovery(c, st) /\ SameDiscovery(r, ApplyHint(c, f))
       \/ /\ ApplyOutcome(st, seq, f) = "Duplicate" /\ OtherEffect(r, st)
          /\ st.fact_seq[f] # None
          /\ r.pending = st.pending /\ r.first_reconcile = st.first_reconcile
       \/ /\ ApplyOutcome(st, seq, f) = "ReconcileRequired" /\ OtherEffect(r, st)
          /\ st.fact_seq[f] = None /\ Kind[f] \notin AppliedKind
          /\ r.pending = PendingAfter(st.pending, f) /\ r.first_reconcile = TRUE

\* StateApplier::apply under a sequence number it consumes.
LEMMA ApplyEffect ==
    ASSUME NEW st, RuntimeOK(st), NEW seq \in JournalSeq, NEW f \in Fact,
           JournalConsumption(st, seq, f) = "Consumed", NEW r, r = Apply(st, seq, f)
    PROVE  ApplyResult(r, st, seq, f)
<1> DEFINE outcome  == ApplyOutcome(st, seq, f)
           consumed == ConsumeJournalSeq(st, seq, f)
<1>0. st \in StoreType /\ PostureOK(st)
  BY DEF RuntimeOK
<1>1. /\ consumed \in StoreType
      /\ consumed.version = st.version /\ consumed.last_applied = st.last_applied
      /\ consumed.fact_seq = st.fact_seq /\ consumed.pending = st.pending
      /\ consumed.mode = st.mode /\ consumed.overlay = st.overlay
      /\ consumed.last_consumed = seq /\ consumed.bound = [st.bound EXCEPT ![seq] = f]
      /\ SameDiscovery(consumed, st)
  BY <1>0, ConsumeFields
<1>2. consumed.first_reconcile = st.first_reconcile
  BY <1>0 DEF ConsumeJournalSeq, StoreType
<1>3. PostureOK(consumed)
  BY <1>0, <1>1 DEF PostureOK
<1>4. \/ outcome = "Duplicate" /\ st.fact_seq[f] # None
      \/ outcome = "Applied" /\ st.fact_seq[f] = None /\ Kind[f] \in AppliedKind
      \/ outcome = "ReconcileRequired" /\ st.fact_seq[f] = None /\ Kind[f] \notin AppliedKind
  BY DEF ApplyOutcome
<1>5. CASE outcome = "Duplicate" /\ st.fact_seq[f] # None
  <2>1. r = consumed
    BY <1>5 DEF Apply
  <2> HIDE DEF consumed
  <2> QED BY <1>1, <1>2, <1>5, <2>1 DEF OtherEffect, ApplyResult
<1>6. CASE outcome = "ReconcileRequired" /\ st.fact_seq[f] = None /\ Kind[f] \notin AppliedKind
  <2> DEFINE opened == IF Kind[f] = "Pending"
                       THEN [consumed EXCEPT !.pending = consumed.pending \cup {RefOf[f]}]
                       ELSE consumed
             marked == [opened EXCEPT !.first_reconcile = TRUE]
  <2>1. r = EnterReconciling(marked)
    BY <1>6 DEF Apply, MarkReconcileRequired
  <2> HIDE DEF consumed
  <2>2. /\ opened \in StoreType /\ SameJournal(opened, consumed) /\ SameDiscovery(opened, consumed)
        /\ opened.pending = PendingAfter(consumed.pending, f)
    BY <1>1, <1>6, ConstantsAssumption
       DEF StoreType, SameJournal, SameDiscovery, PendingAfter, AppliedKind, FactKind
  <2> HIDE DEF opened
  <2>3. /\ marked \in StoreType /\ SameJournal(marked, opened) /\ SameDiscovery(marked, opened)
        /\ marked.pending = opened.pending /\ marked.first_reconcile = TRUE
    BY <2>2 DEF StoreType, SameJournal, SameDiscovery
  <2> HIDE DEF marked
  <2>4. /\ SameJournal(r, marked) /\ SameDiscovery(r, marked) /\ r.pending = marked.pending
    BY <2>1, <2>3, ReconcilingFields
  <2>5. r.first_reconcile = TRUE
    BY <2>1, <2>3 DEF EnterReconciling, ApplyPolicy, StoreType
  <2> QED BY <1>1, <1>6, <2>2, <2>3, <2>4, <2>5 DEF SameJournal, SameDiscovery, OtherEffect, ApplyResult
<1>7. CASE outcome = "Applied" /\ st.fact_seq[f] = None /\ Kind[f] \in AppliedKind
  <2> DEFINE hinted == ApplyHint(consumed, f)
  <2>1. r = RecordAppliedFact(hinted, seq, f)
    BY <1>7 DEF Apply
  <2> HIDE DEF consumed
  <2>2. hinted \in StoreType /\ SameJournal(hinted, consumed) /\ PostureOK(hinted)
    BY <1>1, <1>3, HintFields
  <2>3. /\ hinted.pending = PendingAfter(consumed.pending, f)
        /\ hinted.first_reconcile = consumed.first_reconcile
    BY <1>1, <1>7, HintPending DEF AppliedKind
  <2>4. \E c \in StoreType : SameDiscovery(c, st) /\ hinted = ApplyHint(c, f)
    BY <1>1
  <2> HIDE DEF hinted
  <2>5. /\ r.version = hinted.version + 1 /\ r.last_consumed = hinted.last_consumed
        /\ r.last_applied = seq /\ r.fact_seq = [hinted.fact_seq EXCEPT ![f] = seq]
        /\ r.bound = hinted.bound /\ SameDiscovery(r, hinted)
    BY <2>1, <2>2, AppliedFields
  <2>6. r.pending = hinted.pending /\ r.first_reconcile = hinted.first_reconcile
    BY <2>1, <2>2 DEF RecordAppliedFact, RebuildFullSetAnchor, ApplyRestorePosture, ApplyPolicy,
                      StoreType
  <2> QED BY <1>1, <1>2, <1>7, <2>2, <2>3, <2>4, <2>5, <2>6 
          DEF SameJournal, AppliedEffect, ApplyResult
<1> QED BY <1>4, <1>5, <1>6, <1>7

---------------------------------------------------------------------------
(***************************************************************************)
(* The log, one entry longer                                               *)
(***************************************************************************)

\* A sequence number that is consumed is free and behind everything bound.
LEMMA ConsumedIsNew ==
    ASSUME NEW st, RuntimeOK(st), NEW seq \in JournalSeq, NEW f \in Fact,
           JournalConsumption(st, seq, f) = "Consumed"
    PROVE  st.bound[seq] = None /\ (st.last_consumed # None => st.last_consumed < seq)
BY ConstantsAssumption, NoneIsNoNumber DEF JournalConsumption, RuntimeOK, StoreType, OptionOf

\* Two stores that agree apply a fact alike.
LEMMA AgreesStep ==
    ASSUME NEW st, RuntimeOK(st), NEW old, RuntimeOK(old), Agrees(st, old),
           NEW seq \in JournalSeq, NEW f \in Fact, JournalConsumption(st, seq, f) = "Consumed"
    PROVE  /\ JournalConsumption(old, seq, f) = "Consumed"
           /\ ApplyOutcome(old, seq, f) = ApplyOutcome(st, seq, f)
           /\ Agrees(Apply(st, seq, f), Apply(old, seq, f))
<1> DEFINE r == Apply(st, seq, f)
           q == Apply(old, seq, f)
<1>1. JournalConsumption(old, seq, f) = "Consumed"
  BY NoneIsNoNumber DEF JournalConsumption, Agrees, SamePosition
<1>2. ApplyOutcome(old, seq, f) = ApplyOutcome(st, seq, f)
  BY <1>1 DEF ApplyOutcome, Agrees
<1>3. ApplyResult(r, st, seq, f)
  BY ApplyEffect
<1>4. ApplyResult(q, old, seq, f)
  BY <1>1, ApplyEffect
<1> HIDE DEF r, q
<1>5. CASE ApplyOutcome(st, seq, f) = "Applied"
  <2>1. /\ AppliedEffect(r, st, seq, f)
        /\ \E c \in StoreType : SameDiscovery(c, st) /\ SameDiscovery(r, ApplyHint(c, f))
    BY <1>3, <1>5 DEF ApplyResult
  <2>2. /\ AppliedEffect(q, old, seq, f)
        /\ \E c \in StoreType : SameDiscovery(c, old) /\ SameDiscovery(q, ApplyHint(c, f))
    BY <1>2, <1>4, <1>5 DEF ApplyResult
  <2>3. SameDiscovery(r, q)
    <3>1. PICK c \in StoreType : SameDiscovery(c, st) /\ SameDiscovery(r, ApplyHint(c, f))
      BY <2>1
    <3>2. PICK d \in StoreType : SameDiscovery(d, old) /\ SameDiscovery(q, ApplyHint(d, f))
      BY <2>2
    <3>3. SameDiscovery(c, d)
      BY <3>1, <3>2 DEF SameDiscovery, Agrees
    <3>4. SameDiscovery(ApplyHint(c, f), ApplyHint(d, f))
      BY <3>3, HintDiscovery
    <3> QED BY <3>1, <3>2, <3>4 DEF SameDiscovery
  <2>4. Agrees(r, q)
    BY <1>3, <1>4, <2>1, <2>2, <2>3 DEF AppliedEffect, ApplyResult, Agrees, SamePosition
  <2> QED BY <1>1, <1>2, <2>4 DEF r, q
<1>6. CASE ApplyOutcome(st, seq, f) # "Applied"
  <2>1. OtherEffect(r, st) /\ OtherEffect(q, old)
    BY <1>2, <1>3, <1>4, <1>6 DEF ApplyResult
  <2>2. r.pending = q.pending
    BY <1>2, <1>3, <1>4, <1>6 DEF ApplyResult, Agrees
  <2>3. Agrees(r, q)
    BY <1>3, <1>4, <2>1, <2>2
       DEF OtherEffect, SameDiscovery, ApplyResult, Agrees, SamePosition
  <2> QED BY <1>1, <1>2, <2>3 DEF r, q
<1> QED BY <1>5, <1>6

\* What a further entry of the log must be: a submit comes only when no other
\* is open.
SubmitsInTurn(st, f) ==
    (\E v \in DOMAIN LiveFact : f = LiveFact[v]) =>
        \A a \in SubmitsOf(st) : RefOf[st.bound[a]] \notin st.pending

\* The log grows with the journal.
LEMMA LoggedStep ==
    ASSUME NEW log \in Seq(Input), NEW st, RuntimeOK(st), LoggedIsBound(log, st),
           NEW input \in Input, st.bound[input.seq] = None,
           NEW r, r.bound = [st.bound EXCEPT ![input.seq] = input.fact]
    PROVE  LoggedIsBound(Append(log, input), r)
<1> DEFINE a == Append(log, input)
           n == Len(log)
<1>1. /\ n \in Nat /\ DOMAIN log = 1..n /\ DOMAIN a = 1..(n + 1)
      /\ \A i \in 1..n : a[i] = log[i]
      /\ a[n + 1] = input
  OBVIOUS
<1>2. input.seq \in JournalSeq /\ input.fact \in Fact /\ input = Entry(input.seq, input.fact)
  BY DEF Input, Entry
<1>3. st.bound \in [JournalSeq -> OptionOf(Fact)]
  BY DEF RuntimeOK, StoreType
<1> HIDE DEF a, n
<1>4. ASSUME NEW s \in JournalSeq, NEW f \in Fact
      PROVE  r.bound[s] = f <=> \E i \in DOMAIN a : a[i] = Entry(s, f)
  <2>1. (\E i \in DOMAIN a : a[i] = Entry(s, f))
            <=> (\E i \in DOMAIN log : log[i] = Entry(s, f)) \/ input = Entry(s, f)
    <3>1. DOMAIN a = 1..n \cup {n + 1}
      BY <1>1
    <3> QED BY <1>1, <3>1
  <2>2. input = Entry(s, f) <=> s = input.seq /\ f = input.fact
    BY <1>2 DEF Entry
  <2>3. (\E i \in DOMAIN log : log[i] = Entry(s, f)) <=> st.bound[s] = f
    BY DEF LoggedIsBound
  <2>4. CASE s = input.seq
    <3>1. st.bound[s] # f
      BY <2>4, NoneAssumption
    <3>2. r.bound[s] = input.fact
      BY <1>2, <1>3, <2>4
    <3> QED BY <2>1, <2>2, <2>3, <2>4, <3>1, <3>2
  <2>5. CASE s # input.seq
    <3>1. r.bound[s] = st.bound[s]
      BY <1>2, <1>3, <2>5
    <3> QED BY <2>1, <2>2, <2>3, <2>5, <3>1
  <2> QED BY <2>4, <2>5
<1> QED BY <1>4 DEF LoggedIsBound, a

\* Submits stay settled, and a submit that is no longer pending is settled by
\* the entry that was applied.
LEMMA SubmitsStep ==
    ASSUME NEW st, RuntimeOK(st), BoundBelow(st), RecordedKinds(st), OpenOrSettled(st),
           SettledBetween(st), NEW seq \in JournalSeq, NEW f \in Fact,
           JournalConsumption(st, seq, f) = "Consumed", SubmitsInTurn(st, f),
           NEW r, r = Apply(st, seq, f)
    PROVE  OpenOrSettled(r) /\ SettledBetween(r)
<1>1. /\ st.bound \in [JournalSeq -> OptionOf(Fact)]
      /\ st.fact_seq \in [Fact -> OptionOf(JournalSeq)]
      /\ st.last_consumed \in OptionOf(Nat)
      /\ seq \in Nat /\ JournalSeq \subseteq Nat
  BY ConstantsAssumption DEF RuntimeOK, StoreType
<1>2. st.bound[seq] = None /\ (st.last_consumed # None => st.last_consumed < seq)
  BY ConsumedIsNew
<1>r. ApplyResult(r, st, seq, f)
  BY ApplyEffect
<1>3. r.last_consumed = seq /\ r.bound = [st.bound EXCEPT ![seq] = f]
  BY <1>r DEF ApplyResult
<1>4. \A a \in SubmitsOf(st) : a \in Nat /\ a < seq /\ r.bound[a] = st.bound[a] /\ st.last_consumed \in Nat
  <2>1. SUFFICES ASSUME NEW a \in SubmitsOf(st)
                 PROVE  a \in Nat /\ a < seq /\ r.bound[a] = st.bound[a] /\ st.last_consumed \in Nat
    OBVIOUS
  <2>2. a \in JournalSeq /\ st.bound[a] # None
    BY NoneAssumption, SupervisorAssumption DEF SubmitsOf
  <2>3. st.last_consumed \in Nat /\ a <= st.last_consumed
    BY <1>1, <2>2 DEF BoundBelow, OptionOf
  <2> QED BY <1>1, <1>2, <1>3, <2>2, <2>3, NoneIsNoNumber
<1>5. \A a \in SubmitsOf(r) : a \in SubmitsOf(st) \/ (a = seq /\ \E v \in DOMAIN LiveFact : f = LiveFact[v])
  BY <1>1, <1>3 DEF SubmitsOf
<1>6. ASSUME NEW a \in SubmitsOf(st), NEW c \in JournalSeq, SettledIn(st, a, c)
      PROVE  SettledIn(r, a, c)
  <2>1. PICK g \in Fact : /\ Kind[g] = "ReconcileTerminal"
                          /\ TargetRef[g] = RefOf[st.bound[a]]
                          /\ st.fact_seq[g] = c
    BY <1>6 DEF SettledIn
  <2>2. c # None
    BY <1>1, NoneIsNoNumber
  <2>3. r.fact_seq[g] = c
    <3>1. \/ AppliedEffect(r, st, seq, f) \/ OtherEffect(r, st)
      BY <1>r DEF ApplyResult
    <3>2. CASE AppliedEffect(r, st, seq, f)
      BY <1>1, <2>1, <2>2, <3>2 DEF AppliedEffect
    <3>3. CASE OtherEffect(r, st)
      BY <2>1, <3>3 DEF OtherEffect
    <3> QED BY <3>1, <3>2, <3>3
  <2> QED BY <1>4, <2>1, <2>3 DEF SettledIn
<1>7. ASSUME NEW a \in SubmitsOf(st), RefOf[st.bound[a]] \in st.pending
      PROVE  RefOf[st.bound[a]] \in r.pending \/ SettledIn(r, a, seq)
  <2>1. \/ r.pending = st.pending
        \/ r.pending = st.pending \cup {RefOf[f]}
        \/ /\ Kind[f] = "ReconcileTerminal"
           /\ r.pending = st.pending \ {TargetRef[f]}
           /\ ApplyOutcome(st, seq, f) \in {"Applied", "ReconcileRequired"}
    BY <1>r DEF ApplyResult, AppliedEffect, PendingAfter
  <2>2. CASE /\ Kind[f] = "ReconcileTerminal"
             /\ r.pending = st.pending \ {TargetRef[f]}
             /\ ApplyOutcome(st, seq, f) \in {"Applied", "ReconcileRequired"}
    <3>1. Kind[f] \in AppliedKind
      BY <2>2 DEF AppliedKind, FactKind
    <3>2. AppliedEffect(r, st, seq, f)
      BY <1>r, <2>2, <3>1 DEF ApplyResult
    <3>3. r.fact_seq[f] = seq
      BY <1>1, <3>2 DEF AppliedEffect
    <3>4. CASE TargetRef[f] = RefOf[st.bound[a]]
      BY <1>4, <2>2, <3>3, <3>4 DEF SettledIn
    <3>5. CASE TargetRef[f] # RefOf[st.bound[a]]
      BY <1>7, <2>2, <3>5
    <3> QED BY <3>4, <3>5
  <2> QED BY <1>7, <2>1, <2>2
<1>8. ASSUME NEW a \in SubmitsOf(st)
      PROVE  \/ RefOf[st.bound[a]] \in st.pending
             \/ \E c \in JournalSeq : a < c /\ c < seq /\ SettledIn(r, a, c)
  <2>1. SUFFICES ASSUME RefOf[st.bound[a]] \notin st.pending
                 PROVE  \E c \in JournalSeq : a < c /\ c < seq /\ SettledIn(r, a, c)
    OBVIOUS
  <2>2. PICK c \in JournalSeq : a < c /\ c <= st.last_consumed /\ SettledIn(st, a, c)
    BY <2>1 DEF OpenOrSettled
  <2>3. c < seq
    BY <1>1, <1>2, <1>4, <2>2, NoneIsNoNumber
  <2> QED BY <1>6, <2>2, <2>3
<1>9. OpenOrSettled(r)
  <2>1. SUFFICES ASSUME NEW a \in SubmitsOf(r)
                 PROVE  \/ RefOf[r.bound[a]] \in r.pending
                        \/ \E c \in JournalSeq : a < c /\ c <= seq /\ SettledIn(r, a, c)
    BY <1>3 DEF OpenOrSettled
  <2>2. CASE a \in SubmitsOf(st)
    <3>1. r.bound[a] = st.bound[a] /\ a < seq
      BY <1>4, <2>2
    <3>2. CASE RefOf[st.bound[a]] \in st.pending
      <4>1. seq <= seq
        BY <1>1
      <4> QED BY <1>7, <2>2, <3>1, <3>2, <4>1
    <3>3. CASE \E c \in JournalSeq : a < c /\ c < seq /\ SettledIn(r, a, c)
      <4>1. PICK c \in JournalSeq : a < c /\ c < seq /\ SettledIn(r, a, c)
        BY <3>3
      <4>2. c <= seq
        BY <1>1, <4>1
      <4> QED BY <4>1, <4>2
    <3> QED BY <1>8, <2>2, <3>2, <3>3
  <2>3. CASE a = seq /\ \E v \in DOMAIN LiveFact : f = LiveFact[v]
    <3>1. Kind[f] = "Pending" /\ r.bound[a] = f
      BY <1>1, <1>3, <2>3, SupervisorAssumption
    <3>2. st.fact_seq[f] = None /\ Kind[f] \notin AppliedKind
      BY <3>1 DEF RecordedKinds, AppliedKind
    <3>3. r.pending = PendingAfter(st.pending, f)
      BY <1>r, <3>2 DEF ApplyResult, AppliedEffect
    <3> QED BY <3>1, <3>3 DEF PendingAfter
  <2> QED BY <1>5, <2>2, <2>3
<1>10. SettledBetween(r)
  <2>1. SUFFICES ASSUME NEW a \in SubmitsOf(r), NEW b \in SubmitsOf(r), a < b
                 PROVE  \E c \in JournalSeq : a < c /\ c < b /\ SettledIn(r, a, c)
    BY DEF SettledBetween
  <2>2. a \in SubmitsOf(st)
    <3>1. b \in Nat /\ b <= seq
      <4>1. CASE b = seq
        BY <1>1, <4>1
      <4>2. CASE b \in SubmitsOf(st)
        <5>1. b \in Nat /\ b < seq
          BY <1>4, <4>2
        <5> QED BY <1>1, <5>1
      <4> QED BY <1>5, <4>1, <4>2
    <3>2. a # seq
      BY <1>1, <2>1, <3>1
    <3> QED BY <1>5, <3>2
  <2>3. CASE b \in SubmitsOf(st)
    <3>1. PICK c \in JournalSeq : a < c /\ c < b /\ SettledIn(st, a, c)
      BY <2>1, <2>2, <2>3 DEF SettledBetween
    <3> QED BY <1>6, <2>2, <3>1
  <2>4. CASE b = seq /\ \E v \in DOMAIN LiveFact : f = LiveFact[v]
    <3>1. RefOf[st.bound[a]] \notin st.pending
      BY <2>2, <2>4 DEF SubmitsInTurn
    <3> QED BY <1>8, <2>2, <2>4, <3>1
  <2> QED BY <1>5, <2>3, <2>4
<1> QED BY <1>9, <1>10

\* The invariant of the log, one entry later.
LEMMA HistoryStep ==
    ASSUME NEW log \in Seq(Input), NEW st, HistoryOK(log, st), NEW input \in Input,
           JournalConsumption(st, input.seq, input.fact) = "Consumed",
           SubmitsInTurn(st, input.fact),
           NEW r, r = Apply(st, input.seq, input.fact)
    PROVE  HistoryOK(Append(log, input), r)
<1> DEFINE seq == input.seq
           f   == input.fact
<1>0. seq \in JournalSeq /\ f \in Fact
  BY DEF Input
<1>1. /\ RuntimeOK(st) /\ BoundBelow(st) /\ LoggedIsBound(log, st) /\ RecordedKinds(st)
      /\ IsFiniteSet(st.pending) /\ LastIsOpen(st) /\ OpenOrSettled(st) /\ SettledBetween(st)
  BY DEF HistoryOK
<1>2. /\ st \in StoreType /\ st.bound \in [JournalSeq -> OptionOf(Fact)]
      /\ st.fact_seq \in [Fact -> OptionOf(JournalSeq)]
      /\ st.last_consumed \in OptionOf(Nat)
      /\ seq \in Nat /\ JournalSeq \subseteq Nat
  BY <1>0, <1>1, ConstantsAssumption DEF RuntimeOK, StoreType
<1> HIDE DEF seq, f
<1>3. ApplyResult(r, st, seq, f)
  BY <1>0, <1>1, ApplyEffect DEF seq, f
<1>4. r.last_consumed = seq /\ r.bound = [st.bound EXCEPT ![seq] = f]
  BY <1>3 DEF ApplyResult
<1>5. st.bound[seq] = None /\ (st.last_consumed # None => st.last_consumed < seq)
  BY <1>0, <1>1, ConsumedIsNew DEF seq, f
<1>6. RuntimeOK(r)
  <2>1. r = ApplyInputStore(st, seq, f)
    BY <1>0, <1>2, ApplyInputIsApply DEF seq, f
  <2> QED BY <1>0, <1>1, <2>1, ApplyInputKeepsOK
<1>7. BoundBelow(r)
  <2>1. SUFFICES ASSUME NEW s \in JournalSeq, r.bound[s] # None
                 PROVE  s <= seq
    BY <1>2, <1>4, NoneIsNoNumber DEF BoundBelow
  <2>2. CASE s = seq
    BY <1>2, <2>2
  <2>3. CASE s # seq
    <3>1. st.bound[s] # None
      BY <1>0, <1>2, <1>4, <2>1, <2>3
    <3>2. st.last_consumed \in Nat /\ s <= st.last_consumed
      BY <1>1, <1>2, <3>1 DEF BoundBelow, OptionOf
    <3> QED BY <1>2, <1>5, <3>2, NoneIsNoNumber
  <2> QED BY <2>2, <2>3
<1>8. LoggedIsBound(Append(log, input), r)
  BY <1>1, <1>4, <1>5, LoggedStep DEF seq, f
<1>9. RecordedKinds(r)
  <2>0. seq # None
    BY <1>2, NoneIsNoNumber
  <2>1. CASE AppliedEffect(r, st, seq, f)
    BY <1>1, <1>2, <2>0, <2>1 DEF AppliedEffect, RecordedKinds
  <2>2. CASE OtherEffect(r, st)
    BY <1>1, <2>2 DEF OtherEffect, RecordedKinds
  <2> QED BY <1>3, <2>1, <2>2 DEF ApplyResult
<1>10. IsFiniteSet(r.pending)
  <2>1. IsFiniteSet(st.pending \cup {RefOf[f]}) /\ IsFiniteSet(st.pending \ {TargetRef[f]})
    BY <1>1, FS_AddElement, FS_RemoveElement
  <2>2. r.pending = st.pending \/ r.pending = PendingAfter(st.pending, f)
    BY <1>3 DEF ApplyResult, AppliedEffect
  <2> QED BY <1>1, <2>1, <2>2 DEF PendingAfter
<1>11. LastIsOpen(r)
  <2>1. SUFFICES ASSUME Kind[f] = "Pending" PROVE RefOf[f] \in r.pending
    BY <1>0, <1>2, <1>4 DEF LastIsOpen
  <2>2. st.fact_seq[f] = None /\ Kind[f] \notin AppliedKind
    BY <1>0, <1>1, <2>1 DEF RecordedKinds, AppliedKind
  <2>3. r.pending = PendingAfter(st.pending, f)
    BY <1>3, <2>2 DEF ApplyResult, AppliedEffect
  <2> QED BY <2>1, <2>3 DEF PendingAfter
<1>12. OpenOrSettled(r) /\ SettledBetween(r)
  BY <1>0, <1>1, SubmitsStep DEF seq, f
<1> QED BY <1>6, <1>7, <1>8, <1>9, <1>10, <1>11, <1>12 DEF HistoryOK

\* A further entry is accepted by the replay.
LEMMA ReplayStepOK ==
    ASSUME NEW log \in Seq(Input), NEW end, ReplayOK(log, end), NEW input \in Input,
           JournalConsumption(end.st, input.seq, input.fact) = "Consumed",
           SubmitsInTurn(end.st, input.fact),
           NEW next, next = ReplayStep(end, input)
    PROVE  /\ ReplayOK(Append(log, input), next)
           /\ next.st = Apply(end.st, input.seq, input.fact)
<1> DEFINE seq == input.seq
           f   == input.fact
           st  == end.st
           r   == Apply(st, seq, f)
           outcome == ApplyOutcome(st, seq, f)
<1>0. seq \in JournalSeq /\ f \in Fact
  BY DEF Input
<1>1. HistoryOK(log, st) /\ RuntimeOK(st)
  BY DEF ReplayOK, HistoryOK
<1>2. HistoryOK(Append(log, input), r)
  BY <1>1, HistoryStep
<1>3. ApplyResult(r, st, seq, f)
  BY <1>0, <1>1, ApplyEffect
<1>4. outcome \in {"Applied", "Duplicate", "ReconcileRequired"}
  BY <1>3 DEF ApplyResult
<1>5. next = [st |-> r, required |-> end.required \/ outcome = "ReconcileRequired", ok |-> TRUE]
  BY <1>4 DEF ReplayStep, ReplayOK
<1>6. seq # None
  <2>1. seq \in Nat
    BY <1>0, ConstantsAssumption
  <2> QED BY <2>1, NoneIsNoNumber
<1> HIDE DEF r, outcome, st, seq, f
<1>7. /\ next.st = r /\ next.ok = TRUE
      /\ next.required = (end.required \/ outcome = "ReconcileRequired")
      /\ next = [st |-> next.st, required |-> next.required, ok |-> next.ok]
  BY <1>5
<1>8. next.required \/ next.st.pending = {}
  <2>1. SUFFICES ASSUME ~next.required PROVE r.pending = {}
    BY <1>7
  <2>2. st.pending = {} /\ outcome # "ReconcileRequired"
    BY <1>7, <2>1 DEF ReplayOK, st
  <2>3. r.pending = st.pending \/ AppliedEffect(r, st, seq, f)
    BY <1>3, <2>2 DEF ApplyResult, outcome
  <2> QED BY <2>2, <2>3 DEF AppliedEffect, AppliedKind, PendingAfter
<1>9. next.required \/ next.st.last_applied # None
  <2>1. SUFFICES ASSUME outcome # "ReconcileRequired" PROVE r.last_applied # None
    BY <1>7
  <2>2. AppliedEffect(r, st, seq, f) \/ (OtherEffect(r, st) /\ st.fact_seq[f] # None)
    BY <1>3, <2>1 DEF ApplyResult, outcome
  <2>3. CASE AppliedEffect(r, st, seq, f)
    BY <1>6, <2>3 DEF AppliedEffect
  <2>4. CASE OtherEffect(r, st) /\ st.fact_seq[f] # None
    BY <1>0, <1>1, <2>4 DEF OtherEffect, HistoryOK, RecordedKinds
  <2> QED BY <2>2, <2>3, <2>4
<1>10. HistoryOK(Append(log, input), next.st)
  BY <1>2, <1>7 DEF r, st, seq, f
<1>11. ReplayOK(Append(log, input), next)
  BY <1>7, <1>8, <1>9, <1>10 DEF ReplayOK
<1> QED BY <1>7, <1>11 DEF r, st, seq, f

\* What committing an input does to store and log.
Committed(st, r, log, new, input) ==
    /\ new \in Seq(Input) /\ ReplayOK(new, ReplayPrefix(new))
    /\ StoreInUse(r, new)
    /\ r.last_consumed \in {st.last_consumed, input.seq}
    /\ IF ApplyOutcome(st, input.seq, input.fact) = "Applied"
       THEN r.version = st.version + 1 /\ r.last_applied # None
       ELSE SameShown(r, st) /\ st.pending \subseteq r.pending

\* A fresh input is applied, and appended to the log.
LEMMA CommitFresh ==
    ASSUME NEW log \in Seq(Input), ReplayOK(log, ReplayPrefix(log)), NEW st, StoreInUse(st, log),
           NEW input \in Input, JournalConsumption(st, input.seq, input.fact) = "Consumed",
           SubmitsInTurn(st, input.fact),
           NEW r, r = ApplyInputStore(st, input.seq, input.fact)
    PROVE  /\ Committed(st, r, log, RecordCommittedInput(log, input), input)
           /\ ApplyResult(r, st, input.seq, input.fact)
<1> DEFINE seq == input.seq
           f   == input.fact
           end == ReplayPrefix(log)
           old == end.st
           new == RecordCommittedInput(log, input)
           next == ReplayStep(end, input)
<1>0. seq \in JournalSeq /\ f \in Fact /\ input = Entry(seq, f) /\ seq \in Nat /\ seq # None
  <2>1. seq \in JournalSeq /\ f \in Fact /\ input = Entry(seq, f)
    BY DEF Input, Entry
  <2>2. seq \in Nat
    BY <2>1, ConstantsAssumption
  <2> QED BY <2>1, <2>2, NoneIsNoNumber
<1>1. RuntimeOK(st) /\ st \in StoreType /\ Agrees(st, old) /\ BeforeReconcile(st)
  BY DEF StoreInUse, RuntimeOK
<1>2. HistoryOK(log, old) /\ RuntimeOK(old) /\ BoundBelow(old) /\ LoggedIsBound(log, old)
  BY DEF ReplayOK, HistoryOK
<1> HIDE DEF end
<1>3. /\ JournalConsumption(old, seq, f) = "Consumed"
      /\ ApplyOutcome(old, seq, f) = ApplyOutcome(st, seq, f)
      /\ Agrees(Apply(st, seq, f), Apply(old, seq, f))
  BY <1>0, <1>1, <1>2, AgreesStep
<1>4. r = Apply(st, seq, f)
  BY <1>0, <1>1, ApplyInputIsApply
<1>5. old.bound[seq] = None /\ (old.last_consumed # None => old.last_consumed < seq)
  BY <1>0, <1>2, <1>3, ConsumedIsNew
<1>6. new = Append(log, input)
  <2>1. ~\E i \in DOMAIN log : log[i] = input
    BY <1>0, <1>2, <1>5, NoneAssumption DEF LoggedIsBound
  <2>2. ASSUME NEW i \in DOMAIN log PROVE log[i].seq <= input.seq
    <3>1. log[i] \in Input
      OBVIOUS
    <3>2. log[i] = Entry(log[i].seq, log[i].fact) /\ log[i].seq \in JournalSeq /\ log[i].fact \in Fact
      BY <3>1 DEF Input, Entry
    <3>3. old.bound[log[i].seq] = log[i].fact
      BY <1>2, <3>2 DEF LoggedIsBound
    <3>4. old.last_consumed # None /\ log[i].seq <= old.last_consumed
      BY <1>2, <3>2, <3>3, NoneAssumption DEF BoundBelow
    <3>5. old.last_consumed \in Nat /\ log[i].seq \in Nat
      BY <1>2, <3>2, <3>4, ConstantsAssumption DEF RuntimeOK, StoreType, OptionOf
    <3> QED BY <1>0, <1>5, <3>4, <3>5
  <2> QED BY <2>1, <2>2, InsertedAtEnd DEF RecordCommittedInput
<1>7. new \in Seq(Input) /\ ReplayPrefix(new) = next
  BY <1>6, ReplayOfAppend DEF end
<1>8. SubmitsInTurn(old, f)
  BY <1>1 DEF SubmitsInTurn, SubmitsOf, Agrees
<1>9. ReplayOK(new, ReplayPrefix(new)) /\ ReplayPrefix(new).st = Apply(old, seq, f)
  BY <1>3, <1>6, <1>7, <1>8, ReplayStepOK DEF end
<1>10. RuntimeOK(r)
  BY <1>0, <1>1, ApplyInputKeepsOK
<1>11. ApplyResult(r, st, seq, f)
  BY <1>0, <1>1, <1>4, ApplyEffect
<1> HIDE DEF new, next, seq, f
<1>12. Agrees(r, ReplayPrefix(new).st)
  BY <1>3, <1>4, <1>9
<1>13. st.fact_seq[f] # None => st.last_applied # None
  <2>1. RecordedKinds(old)
    BY <1>2 DEF HistoryOK
  <2> QED BY <1>0, <1>1, <2>1 DEF RecordedKinds, Agrees
<1>14. BeforeReconcile(r)
  <2>1. SUFFICES ASSUME ~r.first_reconcile
                 PROVE  r.pending = {} /\ r.last_applied # None
    BY DEF BeforeReconcile
  <2>2. ~st.first_reconcile /\ (AppliedEffect(r, st, seq, f)
            \/ (OtherEffect(r, st) /\ r.pending = st.pending /\ st.fact_seq[f] # None))
    BY <1>11, <2>1 DEF ApplyResult, AppliedEffect
  <2>3. st.pending = {}
    BY <1>1, <2>2 DEF BeforeReconcile
  <2>4. CASE AppliedEffect(r, st, seq, f)
    BY <1>0, <2>3, <2>4 DEF AppliedEffect, PendingAfter, AppliedKind
  <2>5. CASE OtherEffect(r, st) /\ r.pending = st.pending /\ st.fact_seq[f] # None
    BY <1>13, <2>3, <2>5 DEF OtherEffect
  <2> QED BY <2>2, <2>4, <2>5
<1>15. r.last_consumed = seq
  BY <1>11 DEF ApplyResult
<1>16. CASE ApplyOutcome(st, seq, f) = "Applied"
  <2>1. r.version = st.version + 1 /\ r.last_applied # None
    BY <1>0, <1>11, <1>16 DEF ApplyResult, AppliedEffect
  <2> QED BY <1>7, <1>9, <1>10, <1>11, <1>12, <1>14, <1>15, <1>16, <2>1
          DEF Committed, StoreInUse, seq, f, new
<1>17. CASE ApplyOutcome(st, seq, f) # "Applied"
  <2>1. SameShown(r, st)
    <3>1. r = ApplyInputStore(st, seq, f)
      BY DEF seq, f
    <3> QED BY <1>0, <1>1, <1>17, <3>1, ApplyInputKeepsOK
  <2>2. st.pending \subseteq r.pending
    BY <1>11, <1>17 DEF ApplyResult, PendingAfter, AppliedKind, FactKind
  <2> QED BY <1>7, <1>9, <1>10, <1>11, <1>12, <1>14, <1>15, <1>17, <2>1, <2>2
          DEF Committed, StoreInUse, seq, f, new
<1> QED BY <1>16, <1>17

\* An input that is bound already changes nothing but the posture: it is the
\* last one consumed, and still pending if it ever was.
LEMMA CommitAgain ==
    ASSUME NEW log \in Seq(Input), ReplayOK(log, ReplayPrefix(log)), NEW st, StoreInUse(st, log),
           NEW input \in Input,
           JournalConsumption(st, input.seq, input.fact) = "AlreadyBoundToSameFact",
           st.last_consumed # None => st.last_consumed <= input.seq,
           NEW r, r = ApplyInputStore(st, input.seq, input.fact)
    PROVE  Committed(st, r, log, RecordCommittedInput(log, input), input)
<1> DEFINE seq == input.seq
           f   == input.fact
           old == ReplayPrefix(log).st
<1>0. seq \in JournalSeq /\ f \in Fact /\ input = Entry(seq, f)
  BY DEF Input, Entry
<1>1. RuntimeOK(st) /\ st \in StoreType /\ Agrees(st, old) /\ BeforeReconcile(st)
  BY DEF StoreInUse, RuntimeOK
<1>2. RuntimeOK(old) /\ BoundBelow(old) /\ LoggedIsBound(log, old) /\ LastIsOpen(old)
  BY DEF ReplayOK, HistoryOK
<1> HIDE DEF seq, f, old
<1>3. JournalConsumption(st, seq, f) = "AlreadyBoundToSameFact"
  BY DEF seq, f
<1>4. st.bound[seq] = f /\ old.bound[seq] = f
  BY <1>1, <1>3 DEF JournalConsumption, Agrees
<1>5. RecordCommittedInput(log, input) = log
  BY <1>0, <1>2, <1>4 DEF LoggedIsBound, RecordCommittedInput
<1>6. seq = old.last_consumed
  <2>1. old.last_consumed # None /\ seq <= old.last_consumed
    BY <1>0, <1>2, <1>4, NoneAssumption DEF BoundBelow
  <2>2. st.last_consumed = old.last_consumed
    BY <1>1, <2>1 DEF Agrees, SamePosition
  <2>3. old.last_consumed \in Nat /\ seq \in Nat
    BY <1>0, <1>2, <2>1, ConstantsAssumption DEF RuntimeOK, StoreType, OptionOf
  <2> QED BY <2>1, <2>2, <2>3 DEF seq
<1>7. Kind[f] = "Pending" => RefOf[f] \in st.pending
  BY <1>0, <1>1, <1>2, <1>4, <1>6, NoneAssumption DEF LastIsOpen, Agrees
<1>8. ApplyOutcome(st, seq, f) # "Applied"
  BY <1>0, <1>1, <1>3, AppliedIsConsumed
<1>9. RuntimeOK(r) /\ SameShown(r, st)
  <2>1. r = ApplyInputStore(st, seq, f)
    BY DEF seq, f
  <2> QED BY <1>0, <1>1, <1>8, <2>1, ApplyInputKeepsOK
<1>10. r = Apply(st, seq, f)
  BY <1>0, <1>1, ApplyInputIsApply DEF seq, f
<1>11. ConsumeJournalSeq(st, seq, f) = st
  BY <1>3 DEF ConsumeJournalSeq
<1>12. /\ SameJournal(r, st) /\ SameDiscovery(r, st) /\ r.pending = st.pending
       /\ r.first_reconcile = st.first_reconcile \/ r.first_reconcile
  <2>1. CASE ApplyOutcome(st, seq, f) \in {"Error", "Duplicate"}
    <3>1. r = st
      BY <1>10, <1>11, <2>1 DEF Apply
    <3> QED BY <3>1 DEF SameJournal, SameDiscovery
  <2>2. CASE ApplyOutcome(st, seq, f) = "ReconcileRequired"
    <3> DEFINE opened == IF Kind[f] = "Pending"
                         THEN [st EXCEPT !.pending = st.pending \cup {RefOf[f]}] ELSE st
               marked == [opened EXCEPT !.first_reconcile = TRUE]
    <3>1. r = EnterReconciling(marked)
      BY <1>10, <1>11, <2>2 DEF Apply, MarkReconcileRequired
    <3>2. /\ opened \in StoreType /\ SameJournal(opened, st) /\ SameDiscovery(opened, st)
          /\ opened.pending = st.pending
      BY <1>0, <1>1, <1>7, ConstantsAssumption DEF StoreType, SameJournal, SameDiscovery
    <3> HIDE DEF opened
    <3>3. /\ marked \in StoreType /\ SameJournal(marked, opened) /\ SameDiscovery(marked, opened)
          /\ marked.pending = opened.pending /\ marked.first_reconcile
      BY <3>2 DEF StoreType, SameJournal, SameDiscovery
    <3> HIDE DEF marked
    <3>4. /\ SameJournal(r, marked) /\ SameDiscovery(r, marked) /\ r.pending = marked.pending
      BY <3>1, <3>3, ReconcilingFields
    <3>5. r.first_reconcile
      BY <3>1, <3>3 DEF EnterReconciling, ApplyPolicy, StoreType
    <3> QED BY <3>2, <3>3, <3>4, <3>5 DEF SameJournal, SameDiscovery
  <2> QED BY <1>8, <2>1, <2>2 DEF ApplyOutcome
<1>13. StoreInUse(r, log)
  <2>1. Agrees(r, old)
    BY <1>1, <1>12 DEF Agrees, SameJournal, SameDiscovery, SamePosition
  <2>2. BeforeReconcile(r)
    BY <1>1, <1>12 DEF BeforeReconcile, SameJournal
  <2> QED BY <1>9, <2>1, <2>2 DEF StoreInUse, old
<1>14. r.last_consumed = st.last_consumed
  BY <1>12 DEF SameJournal
<1> QED BY <1>5, <1>8, <1>9, <1>12, <1>13, <1>14 DEF Committed, seq, f

\* An input that is not refused is committed.
LEMMA CommitOK ==
    ASSUME NEW log \in Seq(Input), ReplayOK(log, ReplayPrefix(log)), NEW st, StoreInUse(st, log),
           NEW input \in Input, ApplyOutcome(st, input.seq, input.fact) # "Error",
           st.last_consumed # None => st.last_consumed <= input.seq,
           SubmitsInTurn(st, input.fact),
           NEW r, r = ApplyInputStore(st, input.seq, input.fact)
    PROVE  Committed(st, r, log, RecordCommittedInput(log, input), input)
<1>1. JournalConsumption(st, input.seq, input.fact) \in {"Consumed", "AlreadyBoundToSameFact"}
  BY DEF ApplyOutcome, JournalConsumption
<1> QED BY <1>1, CommitFresh, CommitAgain

---------------------------------------------------------------------------
(***************************************************************************)
(* Bootstrap and restore                                                   *)
(***************************************************************************)

\* The baseline stands in for the position of a store that consumed nothing.
LEMMA BaselineFields ==
    ASSUME NEW st, RuntimeOK(st), st.last_applied = None,
           NEW r, r = MarkReconciledAfterRestore(st, BaselineSeq)
    PROVE  /\ RuntimeOK(r) /\ r.first_reconcile /\ r.pending = {}
           /\ r.last_consumed = 0 /\ r.last_applied = 0
           /\ r.version = st.version /\ r.bound = st.bound /\ r.fact_seq = st.fact_seq
           /\ SameDiscovery(r, st)
<1>1. RuntimeOK(r)
  <2>1. r = AnchorBaseline(st)
    BY DEF AnchorBaseline
  <2> QED BY <2>1, AnchorBaselineKeepsOK
<1> DEFINE placed   == [st EXCEPT !.last_consumed = 0, !.last_applied = 0]
           anchored == RebuildFullSetAnchor(placed, 0)
           cleared  == [anchored EXCEPT !.pending = {}, !.first_reconcile = TRUE]
<1>2. r = ApplyPolicy(cleared, ReconciledPolicy)
  BY DEF MarkReconciledAfterRestore, BaselineSeq
<1>3. /\ placed \in StoreType /\ placed.last_consumed = 0 /\ placed.last_applied = 0
      /\ placed.bound = st.bound /\ placed.fact_seq = st.fact_seq /\ placed.version = st.version
      /\ SameDiscovery(placed, st)
  BY DEF RuntimeOK, StoreType, OptionOf, SameDiscovery
<1> HIDE DEF placed
<1>4. anchored \in StoreType /\ SameJournal(anchored, placed) /\ SameDiscovery(anchored, placed)
  BY <1>3, RebuildFields
<1> HIDE DEF anchored
<1>5. /\ cleared \in StoreType /\ SameJournal(cleared, anchored) /\ SameDiscovery(cleared, anchored)
      /\ cleared.pending = {} /\ cleared.first_reconcile
  BY <1>4 DEF StoreType, SameJournal, SameDiscovery
<1> HIDE DEF cleared
<1>6. /\ SameJournal(r, cleared) /\ SameDiscovery(r, cleared)
      /\ r.pending = {} /\ r.first_reconcile
  BY <1>2, <1>5 DEF ApplyPolicy, ReconciledPolicy, StoreType, SameJournal, SameDiscovery
<1> QED BY <1>1, <1>3, <1>4, <1>5, <1>6 DEF SameJournal, SameDiscovery

\* Bootstrap keeps what the store shares with the log, and the live records.
LEMMA BootstrapInUse ==
    ASSUME NEW log, NEW st, StoreInUse(st, log), ~st.first_reconcile, NEW p, PublishedOK(p, st),
           NEW report \in RemoteSnapshot, NEW r, r = BootstrapStore(st, report)
    PROVE  /\ StoreInUse(r, log) /\ PublishedOK(p, r)
           /\ r.version = st.version /\ r.pending = st.pending
<1> DEFINE old == ReplayPrefix(log).st
           mid == ReconcileStore(st, report)
<1>1. RuntimeOK(st) /\ st \in StoreType /\ Agrees(st, old) /\ BeforeReconcile(st)
  BY DEF StoreInUse, RuntimeOK
<1>2. st.pending = {} /\ (st.last_applied = None => st.last_consumed = None)
  BY <1>1 DEF BeforeReconcile
<1> HIDE DEF old
<1>3. RuntimeOK(mid) /\ SameShown(mid, st)
  BY <1>1, ReconcileKeepsRuntimeOK
<1>4. CASE NeedsAttention(st, report)
  <2>1. r = EnterReconciling(st) /\ r = mid
    BY <1>4 DEF BootstrapStore, ReconcileStore
  <2>2. SameJournal(r, st) /\ SameDiscovery(r, st) /\ r.pending = st.pending
    BY <1>1, <2>1, ReconcilingFields
  <2>3. Agrees(r, old) /\ BeforeReconcile(r)
    BY <1>1, <1>2, <2>2 DEF Agrees, SameJournal, SameDiscovery, SamePosition, BeforeReconcile
  <2>4. PublishedOK(p, r)
    BY <1>3, <2>1, SameShownKeepsPublished
  <2> QED BY <1>3, <2>1, <2>2, <2>3, <2>4 DEF StoreInUse, SameJournal, old
<1>5. CASE ~NeedsAttention(st, report)
  <2>1. mid = CompleteReconcile(st, report) /\ r = AnchorBaseline(mid)
    BY <1>5 DEF BootstrapStore, ReconcileStore
  <2>2. /\ SameJournal(mid, st) /\ SameDiscovery(mid, st)
        /\ mid.pending = st.pending /\ mid.first_reconcile
    <3> DEFINE replaced == [st EXCEPT !.anchor = None, !.orders = LastById(report.orders),
                                      !.tables = report.tables]
               anchored == IF st.last_applied # None
                           THEN RebuildFullSetAnchor(replaced, st.last_applied) ELSE replaced
               done     == [anchored EXCEPT !.first_reconcile = TRUE]
    <3>1. mid = ApplyRestorePosture(done)
      BY <2>1 DEF CompleteReconcile
    <3> QED BY <1>1, <3>1 DEF ApplyRestorePosture, ApplyPolicy, RebuildFullSetAnchor, StoreType,
                              SameJournal, SameDiscovery
  <2>3. RuntimeOK(r) /\ PublishedOK(p, r)
    BY <1>1, <1>3, <2>1, ReconciledKeepsPublished
  <2> HIDE DEF mid
  <2>4. CASE mid.last_applied # None
    <3>1. r = mid
      BY <2>1, <2>4 DEF AnchorBaseline
    <3>2. Agrees(r, old) /\ BeforeReconcile(r)
      BY <1>1, <2>2, <3>1 DEF Agrees, SameJournal, SameDiscovery, SamePosition, BeforeReconcile
    <3> QED BY <2>2, <2>3, <3>1, <3>2 DEF StoreInUse, SameJournal, old
  <2>5. CASE mid.last_applied = None
    <3>1. r = MarkReconciledAfterRestore(mid, BaselineSeq)
      BY <2>1, <2>5 DEF AnchorBaseline
    <3>2. /\ r.first_reconcile /\ r.pending = {}
          /\ r.last_consumed = 0 /\ r.last_applied = 0
          /\ r.version = mid.version /\ r.bound = mid.bound /\ r.fact_seq = mid.fact_seq
          /\ SameDiscovery(r, mid)
      BY <1>3, <2>5, <3>1, BaselineFields
    <3>3. old.last_consumed = None
      BY <1>1, <1>2, <2>2, <2>5, NoneIsNoNumber DEF Agrees, SamePosition, SameJournal
    <3>4. Agrees(r, old) /\ BeforeReconcile(r)
      BY <1>1, <1>2, <2>2, <3>2, <3>3, NoneIsNoNumber
         DEF Agrees, SameJournal, SameDiscovery, SamePosition, BeforeReconcile
    <3> QED BY <1>2, <2>2, <2>3, <3>2, <3>4 DEF StoreInUse, SameJournal, old
  <2> QED BY <2>4, <2>5
<1> QED BY <1>4, <1>5

\* Marking a store reconciled or in need of a reconcile changes its posture alone.
LEMMA PolicyFields ==
    ASSUME NEW st, RuntimeOK(st), NEW policy \in {ReconciledPolicy, ReconcileAttentionPolicy},
           policy = ReconciledPolicy => st.pending = {},
           NEW r, r = ApplyPolicy([st EXCEPT !.first_reconcile = TRUE], policy)
    PROVE  /\ RuntimeOK(r) /\ SameJournal(r, st) /\ SameDiscovery(r, st)
           /\ r.pending = st.pending /\ r.first_reconcile
<1>1. st \in StoreType
  BY DEF RuntimeOK
<1>2. /\ policy.mode \in RuntimeMode /\ policy.overlay \in Overlay
      /\ st.pending # {} => policy.mode # "Healthy" /\ policy.overlay = "CancelOnly"
  BY DEF ReconciledPolicy, ReconcileAttentionPolicy, RuntimeMode, Overlay, RuntimeOverlay
<1>3. r = [st EXCEPT !.first_reconcile = TRUE, !.mode = policy.mode, !.overlay = policy.overlay]
  BY <1>1 DEF ApplyPolicy, StoreType
<1>4. /\ r \in StoreType /\ SameJournal(r, st) /\ SameDiscovery(r, st)
      /\ r.pending = st.pending /\ r.first_reconcile
      /\ r.anchor = st.anchor /\ r.orders = st.orders /\ r.tables = st.tables
      /\ r.mode = policy.mode /\ r.overlay = policy.overlay
  BY <1>1, <1>2, <1>3 DEF StoreType, SameJournal, SameDiscovery
<1>5. PostureOK(r)
  BY <1>2, <1>4 DEF PostureOK
<1> QED BY <1>4, <1>5, SameStandingKeepsOK

\* The store that a replay leaves behind agrees with the log.
LEMMA ReplayInUse ==
    ASSUME NEW log, ReplayOK(log, ReplayPrefix(log)), NEW r, r = Replay(log)
    PROVE  StoreInUse(r, log) /\ r.first_reconcile
<1> DEFINE end == ReplayPrefix(log)
           old == end.st
<1>1. /\ end.ok /\ RuntimeOK(old) /\ old \in StoreType
      /\ end.required \/ old.pending = {}
      /\ end.required \/ old.last_applied # None \/ old.last_consumed = None
  BY DEF ReplayOK, HistoryOK, RuntimeOK
<1>2. r = CASE ~end.ok -> old
            [] end.ok /\ end.required -> MarkReconcileRequired(RestoreReconciledPolicy(old))
            [] end.ok /\ ~end.required /\ old.last_applied = None ->
                   MarkReconciledAfterRestore(old, BaselineSeq)
            [] OTHER -> RestoreReconciledPolicy(old)
  BY DEF Replay
<1> HIDE DEF end
<1>3. /\ RuntimeOK(r) /\ r.first_reconcile
      /\ \/ SameJournal(r, old) /\ SameDiscovery(r, old) /\ r.pending = old.pending
         \/ Agrees(r, old)
  <2>1. CASE end.required
    <3> DEFINE mid == RestoreReconciledPolicy(old)
    <3>1. r = ApplyPolicy([mid EXCEPT !.first_reconcile = TRUE], ReconcileAttentionPolicy)
      BY <1>1, <1>2, <2>1 DEF MarkReconcileRequired, EnterReconciling
    <3>2. [mid EXCEPT !.first_reconcile = TRUE] = mid /\ mid \in StoreType
      BY <1>1 DEF RestoreReconciledPolicy, ApplyPolicy, ReconciledPolicy, StoreType,
                  RuntimeMode, Overlay
    <3>3. r = ApplyPolicy([old EXCEPT !.first_reconcile = TRUE], ReconcileAttentionPolicy)
      BY <1>1, <3>1, <3>2 DEF RestoreReconciledPolicy, ApplyPolicy, StoreType
    <3>4. ReconcileAttentionPolicy # ReconciledPolicy
      <4>1. ReconcileAttentionPolicy.mode # ReconciledPolicy.mode
        BY DEF ReconcileAttentionPolicy, ReconciledPolicy
      <4> QED BY <4>1
    <3> QED BY <1>1, <3>3, <3>4, PolicyFields
  <2>2. CASE ~end.required /\ old.last_applied = None
    <3>1. r = MarkReconciledAfterRestore(old, BaselineSeq)
      BY <1>1, <1>2, <2>2
    <3>2. /\ RuntimeOK(r) /\ r.first_reconcile /\ r.pending = {}
          /\ r.last_consumed = 0 /\ r.last_applied = 0
          /\ r.version = old.version /\ r.bound = old.bound /\ r.fact_seq = old.fact_seq
          /\ SameDiscovery(r, old)
      BY <1>1, <2>2, <3>1, BaselineFields
    <3>3. Agrees(r, old)
      BY <1>1, <2>2, <3>2 DEF Agrees, SamePosition
    <3> QED BY <3>2, <3>3
  <2>3. CASE ~end.required /\ old.last_applied # None
    <3>1. r = ApplyPolicy([old EXCEPT !.first_reconcile = TRUE], ReconciledPolicy)
      BY <1>1, <1>2, <2>3 DEF RestoreReconciledPolicy
    <3>2. old.pending = {}
      BY <1>1, <2>3
    <3> QED BY <1>1, <3>1, <3>2, PolicyFields
  <2> QED BY <2>1, <2>2, <2>3
<1>4. Agrees(r, old)
  BY <1>3 DEF Agrees, SameJournal, SameDiscovery, SamePosition
<1> QED BY <1>3, <1>4 DEF StoreInUse, BeforeReconcile, end

\* A seed that knows of no pending work is right, so clearing it clears nothing.
LEMMA RebuiltInUse ==
    ASSUME NEW log, ReplayOK(log, ReplayPrefix(log)), SeedOK(log), NEW r, r = Rebuilt(log)
    PROVE  StoreInUse(r, log)
<1> DEFINE replayed == Replay(log)
           old == ReplayPrefix(log).st
<1>1. StoreInUse(replayed, log) /\ replayed.first_reconcile
  BY ReplayInUse
<1>2. RuntimeOK(replayed) /\ replayed \in StoreType /\ PostureOK(replayed) /\ Agrees(replayed, old)
  BY <1>1 DEF StoreInUse, RuntimeOK
<1> HIDE DEF replayed, old
<1>3. CASE ~(seed # None /\ seed.pending = 0)
  BY <1>1, <1>3 DEF Rebuilt, replayed
<1>4. CASE seed # None /\ seed.pending = 0
  <2>1. r = ClearPendingReconcileAfterRestore(replayed)
    BY <1>4 DEF Rebuilt, replayed
  <2>2. old.pending = {}
    <3>1. IsFiniteSet(old.pending) /\ Cardinality(old.pending) = 0
      BY <1>4 DEF SeedOK, ReplayOK, HistoryOK, old
    <3> QED BY <3>1, FS_EmptySet
  <2> DEFINE cleared == [replayed EXCEPT !.pending = {}]
  <2>3. cleared = replayed
    BY <1>2, <2>2 DEF Agrees, StoreType
  <2>4. r = ApplyRestorePosture(replayed)
    BY <2>1, <2>3 DEF ClearPendingReconcileAfterRestore
  <2>5. SameJournal(r, replayed) /\ SameDiscovery(r, replayed) /\ r.pending = replayed.pending
        /\ r.first_reconcile = replayed.first_reconcile
    BY <1>2, <2>4, PostureFields
  <2>6. RuntimeOK(r)
    BY <1>2, <2>1, ClearPendingKeepsOK
  <2>7. Agrees(r, old)
    BY <1>2, <2>5 DEF Agrees, SameJournal, SameDiscovery, SamePosition
  <2> QED BY <1>1, <2>5, <2>6, <2>7 DEF StoreInUse, BeforeReconcile, old
<1> QED BY <1>3, <1>4

---------------------------------------------------------------------------
(***************************************************************************)
(* The dispatcher and the snapshot it observes                             *)
(***************************************************************************)

\* What a snapshot of a version is still to cover.
CleanAfter(d, version) ==
    IsDispatch(d) /\ \A r \in d.dirty : Touches(r, "fullset") => r.version = version

\* Observing it leaves nothing of the full-set route dirty.
LEMMA ObservedIsClean ==
    ASSUME NEW version \in Nat, NEW d, CleanAfter(d, version)
    PROVE  DispatchClean(ObserveSnapshot(d, version, {"fullset"}))
<1> DEFINE seen    == [d EXCEPT !.ready = [d.ready EXCEPT !["fullset"] = version]]
           left(r) == IF r.version <= version
                      THEN [r EXCEPT !.domains = r.domains \ DomainsOf("fullset")] ELSE r
           kept    == {r \in {left(q) : q \in d.dirty} : r.domains # {}}
           e       == ObserveSnapshot(d, version, {"fullset"})
<1>1. /\ IsDispatch(seen) /\ seen.dirty = d.dirty
      /\ seen = [ready |-> seen.ready, dirty |-> d.dirty]
  BY DEF CleanAfter, IsDispatch
<1>2. e = [seen EXCEPT !.dirty = {r \in {left(q) : q \in seen.dirty} : r.domains # {}}]
  BY DEF ObserveSnapshot, ObserveReady, ClearDirtyDomains
<1> HIDE DEF seen
<1>3. e = [ready |-> seen.ready, dirty |-> kept]
  BY <1>1, <1>2
<1>4. ASSUME NEW q \in d.dirty
      PROVE  /\ left(q) = [version |-> left(q).version, domains |-> left(q).domains]
             /\ ~Touches(left(q), "fullset")
  <2>1. q = [version |-> q.version, domains |-> q.domains]
    BY DEF CleanAfter, IsDispatch
  <2>2. CASE q.version <= version
    <3>1. left(q) = [version |-> q.version, domains |-> q.domains \ DomainsOf("fullset")]
      BY <2>1, <2>2
    <3> QED BY <3>1 DEF Touches
  <2>3. CASE ~(q.version <= version)
    BY <2>1, <2>3 DEF CleanAfter
  <2> QED BY <2>2, <2>3
<1> HIDE DEF left, e
<1>5. \A r \in kept : /\ r = [version |-> r.version, domains |-> r.domains]
                      /\ ~Touches(r, "fullset")
  BY <1>4
<1> QED BY <1>3, <1>5 DEF DispatchClean, IsDispatch, e

\* A flush leaves it so.
LEMMA FlushedIsClean ==
    ASSUME NEW d, DispatchClean(d)
    PROVE  DispatchClean(Flush(d))
<1> DEFINE routesAt(v) == {route \in Route : LatestDirty(d, route, v)}
           record(v) == [version |-> v, domains |-> UNION {DomainsOf(route) : route \in routesAt(v)}]
<1>1. \A v : routesAt(v) \subseteq {"negrisk"}
  BY DEF DispatchClean, LatestDirty, Route
<1>2. Flush(d) = [ready |-> d.ready, dirty |-> CoalescedDirtyRecords(d)]
  BY DEF Flush, DispatchClean, IsDispatch
<1>3. \A r \in CoalescedDirtyRecords(d) : \E v : r = record(v)
  BY DEF CoalescedDirtyRecords
<1> HIDE DEF routesAt
<1>4. ASSUME NEW v
      PROVE  /\ record(v) = [version |-> record(v).version, domains |-> record(v).domains]
             /\ ~Touches(record(v), "fullset")
  <2>1. UNION {DomainsOf(route) : route \in routesAt(v)} \subseteq NegRiskDomains
    BY <1>1 DEF DomainsOf
  <2> QED BY <2>1 DEF Touches, DomainsOf, NegRiskDomains, FullSetDomains
<1> HIDE DEF record
<1> QED BY <1>2, <1>3, <1>4 DEF DispatchClean, IsDispatch

\* What publishing leaves: the snapshot of the store, live records of its
\* version, and nothing of the full-set route dirty.
IsShown(q, s) ==
    /\ IsSup(q) /\ q.st = s.st /\ q.queue = s.queue /\ q.log = s.log
    /\ PublishedOK(q.published, s.st)
    /\ q.live \subseteq {v \in s.live : v = s.st.version}
    /\ DispatchClean(q.dispatch)

\* publish_current_snapshot.
LEMMA PublishShows ==
    ASSUME NEW s, IsSup(s), RuntimeOK(s.st), PublishedOK(s.published, s.st),
           s.st.last_applied = None => DispatchClean(s.dispatch),
           CleanAfter(s.dispatch, s.st.version), NEW known, NEW allow
    PROVE  IsShown(PublishCurrentSnapshot(s, known, allow), s)
<1> DEFINE q == PublishCurrentSnapshot(s, known, allow)
<1>1. CASE s.st.last_applied = None
  <2> DEFINE mid == [s EXCEPT !.evidence = None]
  <2>1. q = [mid EXCEPT !.live = IF mid.published = None THEN {}
                                 ELSE {v \in mid.live : v = mid.published.version}]
    BY <1>1 DEF PublishCurrentSnapshot, RetainCurrent
  <2>2. s.published = None
    BY <1>1 DEF PublishedOK
  <2>3. /\ IsSup(mid) /\ mid.st = s.st /\ mid.queue = s.queue /\ mid.log = s.log
        /\ mid.published = s.published /\ mid.dispatch = s.dispatch /\ mid.live = s.live
    BY DEF IsSup, SupField
  <2> HIDE DEF mid, q
  <2>4. /\ IsSup(q) /\ q.st = s.st /\ q.queue = s.queue /\ q.log = s.log
        /\ q.published = s.published /\ q.dispatch = s.dispatch /\ q.live = {}
    BY <2>1, <2>2, <2>3 DEF IsSup, SupField
  <2> QED BY <1>1, <2>4 DEF IsShown, q
<1>2. CASE s.st.last_applied # None
  <2> DEFINE new == Published(s.st)
             observed == ObserveSnapshot(s.dispatch, s.st.version, {"fullset"})
             evidence == RolloutEvidence(new.version, known, allow)
             mid == [s EXCEPT !.published = new, !.evidence = evidence, !.dispatch = observed]
  <2>1. /\ new.version = s.st.version /\ new.seq = s.st.last_applied
        /\ new.fullset = OrderIds(s.st.orders)
    BY <1>2 DEF RuntimeOK, AnchoredThere, AnchorAt, Published, AnchoredFullSet
  <2>2. new.fullset # None
    <3>1. OrderIds(s.st.orders) \in SUBSET {o.id : o \in Order}
      BY DEF RuntimeOK, StoreType, OrderIds
    <3> QED BY <2>1, <3>1, NoneIsNoRecord
  <2>3. q = [mid EXCEPT !.live = IF mid.published = None THEN {}
                                 ELSE {v \in mid.live : v = mid.published.version}]
    BY <1>2, <2>1, <2>2 DEF PublishCurrentSnapshot, RetainCurrent
  <2>4. DispatchClean(observed)
    <3>1. s.st.version \in Nat
      BY DEF RuntimeOK, StoreType
    <3> QED BY <3>1, ObservedIsClean
  <2> HIDE DEF new, observed, evidence
  <2>5. /\ IsSup(mid) /\ mid.st = s.st /\ mid.queue = s.queue /\ mid.log = s.log
        /\ mid.published = new /\ mid.dispatch = observed /\ mid.live = s.live
    BY DEF IsSup, SupField
  <2> HIDE DEF mid, q
  <2>6. /\ IsSup(q) /\ q.st = s.st /\ q.queue = s.queue /\ q.log = s.log
        /\ q.published = new /\ q.dispatch = observed
        /\ q.live \subseteq {v \in s.live : v = new.version}
    BY <2>3, <2>5 DEF IsSup, SupField
  <2> QED BY <1>2, <2>1, <2>4, <2>6 DEF IsShown, PublishedOK, q
<1> QED BY <1>1, <1>2

---------------------------------------------------------------------------
(***************************************************************************)
(* The actions                                                             *)
(***************************************************************************)

\* A supervisor that is up, with its queue and its log.
UpOK(s) ==
    /\ IsSup(s) /\ QueueOK(s.queue)
    /\ s.log \in Seq(Input) /\ ReplayOK(s.log, ReplayPrefix(s.log))
    /\ SupOK(s)

\* The next input of a drain: there is one, and it is not behind any other.
LEMMA NextAfterIsFirst ==
    ASSUME NEW queue, QueueOK(queue), NEW position, AfterAnchor(queue, position) # {},
           NEW n, n = NextAfter(queue, position)
    PROVE  /\ n \in DOMAIN queue /\ n \in AfterAnchor(queue, position)
           /\ \A i \in AfterAnchor(queue, position) : queue[n].seq <= queue[i].seq
<1> DEFINE After == AfterAnchor(queue, position)
<1>1. After \subseteq DOMAIN queue /\ DOMAIN queue \subseteq Nat
  BY DEF AfterAnchor, QueueOK
<1>2. After \subseteq Nat /\ After # {}
  BY <1>1
<1> HIDE DEF After
<1>3. \E k \in After : \A j \in After : k <= j
  BY <1>2, LeastNat
<1>4. n \in After /\ \A j \in After : n <= j
  BY <1>3 DEF NextAfter, After
<1> QED BY <1>1, <1>4 DEF QueueOK, After

\* Taking an input off the queue leaves the others in order, each of them where
\* it was relative to the anchor.
LEMMA RemoveKeepsQueue ==
    ASSUME NEW queue, QueueOK(queue), NEW n \in DOMAIN queue,
           NEW r, r = RemoveFirst(queue, queue[n])
    PROVE  /\ QueueOK(r)
           /\ \A position : \A i \in AfterAnchor(r, position) :
                  \E k \in AfterAnchor(queue, position) : r[i] = queue[k]
<1>1. queue \in Seq(QueuedInput) /\ Len(queue) \in Nat /\ DOMAIN queue = 1..Len(queue)
  BY DEF QueueOK
<1>a. PICK at \in DOMAIN queue : RemovedAt(r, queue, at)
  BY <1>1, RemoveFields
<1>2. /\ r \in Seq(QueuedInput)
      /\ DOMAIN r = 1..(Len(queue) - 1)
      /\ \A i \in DOMAIN r : r[i] = IF i < at THEN queue[i] ELSE queue[i + 1]
  BY <1>a DEF RemovedAt
<1>3. \A i, j \in DOMAIN queue : i <= j => queue[i].seq <= queue[j].seq
  BY DEF QueueOK
<1>4. ASSUME NEW i \in DOMAIN r, NEW j \in DOMAIN r, i <= j
      PROVE  r[i].seq <= r[j].seq
  <2> DEFINE a == IF i < at THEN i ELSE i + 1
             b == IF j < at THEN j ELSE j + 1
  <2>1. a \in DOMAIN queue /\ b \in DOMAIN queue /\ a <= b /\ r[i] = queue[a] /\ r[j] = queue[b]
    BY <1>1, <1>2, <1>4
  <2> QED BY <1>3, <2>1
<1>5. ASSUME NEW position, NEW i \in AfterAnchor(r, position)
      PROVE  \E k \in AfterAnchor(queue, position) : r[i] = queue[k]
  <2> DEFINE a == IF i < at THEN i ELSE i + 1
  <2>1. i \in DOMAIN r /\ (position = None \/ r[i].seq > position)
    BY DEF AfterAnchor
  <2>2. a \in DOMAIN queue /\ r[i] = queue[a]
    BY <1>1, <1>2, <2>1
  <2> QED BY <2>1, <2>2 DEF AfterAnchor
<1> QED BY <1>2, <1>4, <1>5 DEF QueueOK

\* Publishing keeps a supervisor that is up so.
LEMMA ShownIsUp ==
    ASSUME NEW s, UpOK(s), NEW known, NEW allow
    PROVE  /\ UpOK(PublishCurrentSnapshot(s, known, allow))
           /\ IsShown(PublishCurrentSnapshot(s, known, allow), s)
<1> DEFINE q == PublishCurrentSnapshot(s, known, allow)
<1>1. /\ IsSup(s) /\ RuntimeOK(s.st) /\ PublishedOK(s.published, s.st) /\ DispatchClean(s.dispatch)
      /\ LiveOK(s.live, s.st)
  BY DEF UpOK, SupOK, StoreInUse
<1>2. CleanAfter(s.dispatch, s.st.version)
  BY <1>1 DEF DispatchClean, CleanAfter
<1>3. IsShown(q, s)
  BY <1>1, <1>2, PublishShows
<1> HIDE DEF q
<1>4. LiveOK(q.live, s.st)
  BY <1>1, <1>3 DEF LiveOK, IsShown
<1>5. UpOK(q)
  BY <1>3, <1>4 DEF IsShown, UpOK, SupOK
<1> QED BY <1>3, <1>5 DEF q

\* drain_input_tasks, for an input that is not refused.
LEMMA AcceptOK ==
    ASSUME NEW s, UpOK(s), NEW position, DrainOK(s, position),
           AfterAnchor(s.queue, position) # {},
           NEW input, input = s.queue[NextAfter(s.queue, position)],
           ApplyOutcome(s.st, input.seq, input.fact) # "Error",
           NEW q, q = Accept(s, input)
    PROVE  UpOK(q) /\ DrainOK(q, position)
<1> DEFINE n == NextAfter(s.queue, position)
           r == ApplyInputStore(s.st, input.seq, input.fact)
           l == RecordCommittedInput(s.log, input)
           u == RemoveFirst(s.queue, input)
           taken == [s EXCEPT !.st = r, !.log = l, !.queue = u]
           applied == ApplyOutcome(s.st, input.seq, input.fact) = "Applied"
<1>1. /\ IsSup(s) /\ QueueOK(s.queue) /\ s.log \in Seq(Input)
      /\ ReplayOK(s.log, ReplayPrefix(s.log)) /\ StoreInUse(s.st, s.log)
      /\ PublishedOK(s.published, s.st) /\ LiveOK(s.live, s.st) /\ DispatchClean(s.dispatch)
  BY DEF UpOK, SupOK
<1>2. /\ n \in DOMAIN s.queue /\ n \in AfterAnchor(s.queue, position)
      /\ \A i \in AfterAnchor(s.queue, position) : s.queue[n].seq <= s.queue[i].seq
  BY <1>1, NextAfterIsFirst
<1> HIDE DEF n
<1>3. input = s.queue[n]
  BY DEF n
<1>4. input \in QueuedInput /\ input \in Input /\ input.fact \in InputFact
  <2>1. input \in QueuedInput
    BY <1>1, <1>2, <1>3 DEF QueueOK
  <2> QED BY <2>1, SupervisorAssumption DEF QueuedInput, Input
<1>5. s.st.last_consumed # None => s.st.last_consumed <= input.seq
  BY <1>2, <1>3 DEF DrainOK
<1>6. SubmitsInTurn(s.st, input.fact)
  BY <1>4, SupervisorAssumption DEF SubmitsInTurn
<1>7. Committed(s.st, r, s.log, l, input)
  BY <1>1, <1>4, <1>5, <1>6, CommitOK
<1>8. /\ QueueOK(u)
      /\ \A i \in AfterAnchor(u, position) : \E k \in AfterAnchor(s.queue, position) : u[i] = s.queue[k]
  BY <1>1, <1>2, <1>3, RemoveKeepsQueue
<1> HIDE DEF r, l, u
<1>9. /\ IsSup(taken) /\ taken.st = r /\ taken.log = l /\ taken.queue = u
      /\ taken.published = s.published /\ taken.dispatch = s.dispatch /\ taken.live = s.live
  BY <1>1 DEF IsSup, SupField
<1>10. q = IF applied
           THEN PublishCurrentSnapshot(
                    [taken EXCEPT !.published = None,
                                  !.dispatch = RecordApply(s.dispatch, taken.st.version,
                                                           DirtySetOf(input.fact))],
                    seed, FALSE)
           ELSE taken
  BY DEF Accept, r, l, u
<1> HIDE DEF taken, applied
<1>11. /\ l \in Seq(Input) /\ ReplayOK(l, ReplayPrefix(l)) /\ StoreInUse(r, l) /\ RuntimeOK(r)
       /\ r.last_consumed \in {s.st.last_consumed, input.seq}
  BY <1>7 DEF Committed, StoreInUse
<1>12. ASSUME q.st = r, q.queue = u PROVE DrainOK(q, position)
  <2>1. SUFFICES ASSUME NEW i \in AfterAnchor(u, position), r.last_consumed # None
                 PROVE  r.last_consumed <= u[i].seq
    BY <1>12 DEF DrainOK
  <2>2. PICK k \in AfterAnchor(s.queue, position) : u[i] = s.queue[k]
    BY <1>8
  <2>3. CASE r.last_consumed = s.st.last_consumed
    BY <2>1, <2>2, <2>3 DEF DrainOK
  <2>4. CASE r.last_consumed = input.seq
    BY <1>2, <1>3, <2>2, <2>4
  <2> QED BY <1>11, <2>3, <2>4
<1>13. CASE ~applied
  <2>1. q = taken
    BY <1>10, <1>13
  <2>2. SameShown(r, s.st) /\ s.st.pending \subseteq r.pending
    BY <1>7, <1>13 DEF Committed, applied
  <2>3. PublishedOK(s.published, r)
    BY <1>1, <2>2, SameShownKeepsPublished
  <2>4. LiveOK(s.live, r)
    BY <1>1, <2>2 DEF LiveOK, SameShown
  <2> QED BY <1>1, <1>8, <1>9, <1>11, <1>12, <2>1, <2>3, <2>4 DEF UpOK, SupOK
<1>14. CASE applied
  <2> DEFINE d == RecordApply(s.dispatch, r.version, DirtySetOf(input.fact))
             t == [taken EXCEPT !.published = None, !.dispatch = d]
  <2>1. q = PublishCurrentSnapshot(t, seed, FALSE)
    BY <1>9, <1>10, <1>14
  <2>2. r.version = s.st.version + 1 /\ r.last_applied # None
    BY <1>7, <1>14 DEF Committed, applied
  <2>3. CleanAfter(d, r.version)
    <3>1. s.dispatch = [ready |-> s.dispatch.ready, dirty |-> s.dispatch.dirty]
      BY <1>1 DEF DispatchClean, IsDispatch
    <3>2. d = [ready |-> s.dispatch.ready,
               dirty |-> s.dispatch.dirty
                             \cup {[version |-> r.version, domains |-> DirtySetOf(input.fact)]}]
      BY <3>1 DEF RecordApply
    <3> HIDE DEF d
    <3> QED BY <1>1, <3>2 DEF DispatchClean, CleanAfter, IsDispatch
  <2> HIDE DEF d
  <2>4. /\ IsSup(t) /\ t.st = r /\ t.log = l /\ t.queue = u
        /\ t.published = None /\ t.dispatch = d /\ t.live = s.live
    BY <1>9 DEF IsSup, SupField
  <2> HIDE DEF t
  <2>5. IsShown(q, t)
    <3>1. PublishedOK(t.published, t.st)
      BY <2>4 DEF PublishedOK
    <3> QED BY <1>11, <2>1, <2>2, <2>3, <2>4, <3>1, PublishShows
  <2>6. q.live = {}
    <3>1. s.st.version \in Nat
      BY <1>1 DEF StoreInUse, RuntimeOK, StoreType
    <3>2. \A v \in s.live : v = s.st.version
      BY <1>1 DEF LiveOK
    <3> QED BY <2>2, <2>4, <2>5, <3>1, <3>2 DEF IsShown
  <2>7. LiveOK(q.live, r)
    BY <2>6 DEF LiveOK
  <2>8. q.st = r /\ q.log = l /\ q.queue = u
    BY <2>4, <2>5 DEF IsShown
  <2> QED BY <1>8, <1>11, <1>12, <2>4, <2>5, <2>7, <2>8 DEF UpOK, SupOK, IsShown
<1> QED BY <1>13, <1>14

\* apply_live_submit_facts, when the rollout gate allows it.
LEMMA SubmitOK ==
    ASSUME NEW s, UpOK(s), s.published # None, s.st.last_consumed + 1 \in JournalSeq,
           s.published.version \in DOMAIN LiveFact,
           s.log = <<>> \/ s.st.pending = {},
           NEW q, q = ApplyLiveSubmitFact(s)
    PROVE  UpOK(q) /\ q.queue = s.queue
<1> DEFINE v == s.published.version
           f == LiveFact[v]
           seq == s.st.last_consumed + 1
           input == [seq |-> seq, fact |-> f]
           r == ApplyInputStore(s.st, seq, f)
           l == RecordCommittedInput(s.log, input)
           old == ReplayPrefix(s.log).st
<1>1. /\ IsSup(s) /\ QueueOK(s.queue) /\ s.log \in Seq(Input)
      /\ ReplayOK(s.log, ReplayPrefix(s.log)) /\ StoreInUse(s.st, s.log)
      /\ PublishedOK(s.published, s.st) /\ LiveOK(s.live, s.st) /\ DispatchClean(s.dispatch)
  BY DEF UpOK, SupOK
<1>2. RuntimeOK(s.st) /\ Agrees(s.st, old)
  BY <1>1 DEF StoreInUse
<1>3. BoundBelow(old) /\ LoggedIsBound(s.log, old) /\ RecordedKinds(old) /\ RuntimeOK(old)
  BY <1>1 DEF ReplayOK, HistoryOK
<1>4. /\ f \in Fact /\ Kind[f] = "Pending"
  BY SupervisorAssumption
<1>5. seq \in JournalSeq /\ input \in Input /\ input.seq = seq /\ input.fact = f
  BY <1>4 DEF Input
<1>6. v = s.st.version /\ s.st.last_applied # None
  BY <1>1 DEF PublishedOK
<1>7. s.st.last_consumed \in Nat
  BY <1>2, <1>6 DEF RuntimeOK, AnchoredThere, StoreType, OptionOf
<1> HIDE DEF old, v
<1>8. s.st.bound[seq] = None
  <2>1. SUFFICES ASSUME old.bound[seq] # None PROVE FALSE
    BY <1>2 DEF Agrees
  <2>2. old.last_consumed # None /\ seq <= old.last_consumed
    BY <1>3, <1>5, <2>1 DEF BoundBelow
  <2>3. s.st.last_consumed = old.last_consumed
    BY <1>2, <2>2 DEF Agrees, SamePosition
  <2> QED BY <1>7, <2>2, <2>3
<1>9. JournalConsumption(s.st, seq, f) = "Consumed"
  BY <1>7, <1>8 DEF JournalConsumption
<1>10. SubmitsInTurn(s.st, f)
  <2>1. CASE s.st.pending = {}
    BY <2>1 DEF SubmitsInTurn
  <2>2. CASE s.log = <<>>
    <3>1. \A c \in JournalSeq, g \in Fact : s.st.bound[c] # g
      BY <1>2, <1>3, <2>2 DEF LoggedIsBound, Agrees
    <3>2. SubmitsOf(s.st) = {}
      BY <3>1, SupervisorAssumption DEF SubmitsOf
    <3> QED BY <3>2 DEF SubmitsInTurn
  <2> QED BY <2>1, <2>2
<1> HIDE DEF f, seq
<1>11. Committed(s.st, r, s.log, l, input) /\ ApplyResult(r, s.st, seq, f)
  <2>1. r = ApplyInputStore(s.st, input.seq, input.fact)
    BY <1>5
  <2> HIDE DEF input
  <2> QED BY <1>1, <1>5, <1>9, <1>10, <2>1, CommitFresh
<1>12. s.st.fact_seq[f] = None /\ Kind[f] \notin AppliedKind
  BY <1>2, <1>3, <1>4 DEF RecordedKinds, AppliedKind, Agrees
<1>13. q = [s EXCEPT !.st = r, !.log = l, !.live = {v}]
  BY DEF ApplyLiveSubmitFact, f, seq, v
<1> HIDE DEF r, l
<1>14. RefOf[f] \in r.pending
  <2>1. r.pending = PendingAfter(s.st.pending, f)
    BY <1>11, <1>12 DEF ApplyResult, AppliedEffect
  <2> QED BY <1>4, <2>1 DEF PendingAfter
<1>15. ApplyOutcome(s.st, seq, f) # "Applied"
  BY <1>11, <1>12 DEF ApplyResult, AppliedEffect
<1>16. SameShown(r, s.st)
  BY <1>5, <1>11, <1>15 DEF Committed
<1>17. /\ IsSup(q) /\ q.st = r /\ q.log = l /\ q.queue = s.queue /\ q.live = {v}
       /\ q.published = s.published /\ q.dispatch = s.dispatch
  BY <1>1, <1>13 DEF IsSup, SupField
<1>18. LiveOK({v}, r)
  BY <1>6, <1>14, <1>16 DEF LiveOK, SameShown, f
<1>19. PublishedOK(s.published, r)
  BY <1>1, <1>16, SameShownKeepsPublished
<1>20. l \in Seq(Input) /\ ReplayOK(l, ReplayPrefix(l)) /\ StoreInUse(r, l)
  BY <1>11 DEF Committed
<1> QED BY <1>1, <1>17, <1>18, <1>19, <1>20 DEF UpOK, SupOK

\* A drain starts at the last input consumed.
LEMMA DrainStarts ==
    ASSUME NEW s, UpOK(s), NEW i \in AfterAnchor(s.queue, s.st.last_consumed),
           s.st.last_consumed # None
    PROVE  s.st.last_consumed <= s.queue[i].seq
<1>1. s.st.last_consumed \in Nat
  BY DEF UpOK, SupOK, StoreInUse, RuntimeOK, StoreType, OptionOf
<1>2. i \in DOMAIN s.queue /\ s.queue[i].seq > s.st.last_consumed
  BY DEF AfterAnchor
<1>3. s.queue[i] \in QueuedInput
  BY <1>2 DEF UpOK, QueueOK
<1>4. s.queue[i].seq \in Nat
  BY <1>3, ConstantsAssumption DEF QueuedInput
<1> QED BY <1>1, <1>2, <1>4

\* The first half of run_once: bootstrap, publish, submit.
LEMMA RunOnceKeepsUp ==
    ASSUME snapshot \in RemoteSnapshot, UpOK(sup), RunOnce
    PROVE  UpOK(sup') /\ DrainOK(sup', anchor') /\ pc' = "drain"
<1> DEFINE r      == IF sup.st.first_reconcile THEN sup.st ELSE BootstrapStore(sup.st, snapshot)
           booted == [sup EXCEPT !.st = r]
           allow  == AllowOperatorSynthesis(booted)
           shown  == PublishCurrentSnapshot(booted, seed, allow)
<1>1. /\ IsSup(sup) /\ QueueOK(sup.queue) /\ sup.log \in Seq(Input)
      /\ ReplayOK(sup.log, ReplayPrefix(sup.log)) /\ StoreInUse(sup.st, sup.log)
      /\ PublishedOK(sup.published, sup.st) /\ LiveOK(sup.live, sup.st)
      /\ DispatchClean(sup.dispatch)
  BY DEF UpOK, SupOK
<1>2. /\ \/ /\ SubmitsLive(shown, allow)
            /\ shown.st.last_consumed + 1 \in JournalSeq
            /\ shown.published.version \in DOMAIN LiveFact
            /\ sup' = ApplyLiveSubmitFact(shown)
         \/ /\ ~SubmitsLive(shown, allow)
            /\ sup' = shown
      /\ pc' = "drain" /\ anchor' = sup'.st.last_consumed
  BY DEF RunOnce
<1>3. /\ StoreInUse(r, sup.log) /\ PublishedOK(sup.published, r)
      /\ r.version = sup.st.version /\ r.pending = sup.st.pending
  BY <1>1, BootstrapInUse
<1> HIDE DEF r
<1>4. /\ IsSup(booted) /\ booted.st = r /\ booted.queue = sup.queue /\ booted.log = sup.log
      /\ booted.published = sup.published /\ booted.dispatch = sup.dispatch
      /\ booted.live = sup.live
  BY <1>1 DEF IsSup, SupField
<1> HIDE DEF booted
<1>5. UpOK(booted)
  <2>1. LiveOK(sup.live, r)
    BY <1>1, <1>3 DEF LiveOK
  <2> QED BY <1>1, <1>3, <1>4, <2>1 DEF UpOK, SupOK
<1>6. UpOK(shown) /\ shown.st = booted.st /\ shown.log = booted.log
  <2>1. UpOK(shown) /\ IsShown(shown, booted)
    BY <1>5, ShownIsUp
  <2> HIDE DEF shown
  <2> QED BY <2>1 DEF IsShown
<1>7. allow => shown.log = <<>> \/ shown.st.pending = {}
  BY <1>6 DEF AllowOperatorSynthesis
<1> HIDE DEF allow, shown
<1>8. UpOK(sup')
  <2>1. CASE sup' = shown
    BY <1>6, <2>1
  <2>2. CASE /\ SubmitsLive(shown, allow)
             /\ shown.st.last_consumed + 1 \in JournalSeq
             /\ shown.published.version \in DOMAIN LiveFact
             /\ sup' = ApplyLiveSubmitFact(shown)
    <3>1. shown.published # None /\ (shown.log = <<>> \/ shown.st.pending = {})
      BY <1>7, <2>2 DEF SubmitsLive
    <3> QED BY <1>6, <2>2, <3>1, SubmitOK
  <2> QED BY <1>2, <2>1, <2>2
<1>9. DrainOK(sup', anchor')
  <2>1. SUFFICES ASSUME NEW i \in AfterAnchor(sup'.queue, anchor'), sup'.st.last_consumed # None
                 PROVE  sup'.st.last_consumed <= sup'.queue[i].seq
    BY DEF DrainOK
  <2> QED BY <1>2, <1>8, <2>1, DrainStarts
<1> QED BY <1>2, <1>8, <1>9

\* The end of a tick, or of a resume.
LEMMA FinishKeepsUp ==
    ASSUME UpOK(sup), FinishTick
    PROVE  UpOK(sup') /\ pc' = "idle"
<1> DEFINE end == IF pc = "resumed" /\ sup.published = None /\ sup.st.version > 0
                  THEN PublishCurrentSnapshot(sup, seed, FALSE) ELSE sup
           flushed == [end EXCEPT !.dispatch = Flush(end.dispatch)]
<1>1. (sup' = end \/ sup' = flushed) /\ pc' = "idle"
  BY DEF FinishTick
<1>2. UpOK(end)
  BY ShownIsUp
<1> HIDE DEF end
<1>3. /\ IsSup(flushed) /\ flushed.st = end.st /\ flushed.queue = end.queue /\ flushed.log = end.log
      /\ flushed.published = end.published /\ flushed.live = end.live
      /\ flushed.dispatch = Flush(end.dispatch)
  BY <1>2 DEF UpOK, IsSup, SupField
<1>4. DispatchClean(Flush(end.dispatch))
  BY <1>2, FlushedIsClean DEF UpOK, SupOK
<1> HIDE DEF flushed
<1>5. UpOK(flushed)
  BY <1>2, <1>3, <1>4 DEF UpOK, SupOK
<1> QED BY <1>1, <1>2, <1>5

\* What is left of a supervisor that went down.
Down(log, queue) == [NewSupervisor EXCEPT !.log = log, !.queue = queue]

LEMMA DownFields ==
    ASSUME NEW log, NEW queue, NEW s, s = Down(log, queue)
    PROVE  /\ IsSup(s) /\ s.log = log /\ s.queue = queue /\ s.live = {} /\ s.published = None
           /\ s.dispatch = NewDispatch /\ s.st = NewStore
BY DEF Down, NewSupervisor, IsSup, SupField

\* resume_once, when nothing diverges.
LEMMA ResumeKeepsUp ==
    ASSUME NEW s, QueueOK(s.queue), s.log \in Seq(Input), ReplayOK(s.log, ReplayPrefix(s.log)),
           s = Down(s.log, s.queue), SeedOK(s.log),
           NEW rebuilt, rebuilt = [s EXCEPT !.st = Rebuilt(s.log)],
           NEW shown, shown = PublishCurrentSnapshot(rebuilt, seed, FALSE),
           NEW q, q = RetainCurrent([shown EXCEPT !.live = IF seed = None THEN {} ELSE seed.live])
    PROVE  UpOK(q)
<1> DEFINE r    == Rebuilt(s.log)
           live == IF seed = None THEN {} ELSE seed.live
           mid  == [shown EXCEPT !.live = live]
<1>1. /\ IsSup(s) /\ s.live = {} /\ s.published = None /\ s.dispatch = NewDispatch
  BY DownFields
<1>2. StoreInUse(r, s.log)
  BY RebuiltInUse
<1>3. LiveOK(live, r)
  BY <1>2 DEF SeedOK, LiveOK, StoreInUse, Agrees
<1> HIDE DEF r, live
<1>4. /\ IsSup(rebuilt) /\ rebuilt.st = r /\ rebuilt.queue = s.queue /\ rebuilt.log = s.log
      /\ rebuilt.published = None /\ rebuilt.dispatch = NewDispatch /\ rebuilt.live = {}
  BY <1>1 DEF IsSup, SupField, r
<1>5. UpOK(rebuilt)
  <2>1. PublishedOK(None, r) /\ LiveOK({}, r) /\ DispatchClean(NewDispatch)
    BY DEF PublishedOK, LiveOK, DispatchClean, IsDispatch, NewDispatch
  <2> QED BY <1>2, <1>4, <2>1 DEF UpOK, SupOK
<1>6. UpOK(shown) /\ shown.st = r
  <2>1. UpOK(shown) /\ IsShown(shown, rebuilt)
    BY <1>5, ShownIsUp
  <2> QED BY <1>4, <2>1 DEF IsShown
<1>7. /\ IsSup(mid) /\ mid.st = r /\ mid.queue = shown.queue /\ mid.log = shown.log
      /\ mid.published = shown.published /\ mid.dispatch = shown.dispatch /\ mid.live = live
  BY <1>6 DEF UpOK, IsSup, SupField
<1>8. q = [mid EXCEPT !.live = IF mid.published = None THEN {}
                               ELSE {v \in mid.live : v = mid.published.version}]
  BY DEF RetainCurrent, live
<1> HIDE DEF mid
<1>9. /\ IsSup(q) /\ q.st = r /\ q.queue = shown.queue /\ q.log = shown.log
      /\ q.published = shown.published /\ q.dispatch = shown.dispatch /\ q.live \subseteq live
  BY <1>7, <1>8 DEF IsSup, SupField
<1>10. LiveOK(q.live, r)
  BY <1>3, <1>9 DEF LiveOK
<1> QED BY <1>6, <1>9, <1>10 DEF UpOK, SupOK

\* The invariant holds initially.
LEMMA SupervisorInitOK ==
    ASSUME SupervisorInit
    PROVE  SupervisorInv
<1>1. /\ sup.st = NewStore /\ sup.queue = <<>> /\ sup.log = <<>> /\ sup.published = None
      /\ sup.dispatch = NewDispatch /\ sup.live = {} /\ IsSup(sup)
  BY DEF SupervisorInit, NewSupervisor, IsSup, SupField
<1>2. RuntimeOK(NewStore)
  <2>1. NewStore \in StoreType /\ PostureOK(NewStore)
    BY NewStoreOK DEF StoreOK
  <2> QED BY <2>1 DEF RuntimeOK, NewStore, EmptyAccount, ConsumedWasApplied, AnchoredThere, Table
<1>3. ReplayPrefix(<<>>) = [st |-> NewStore, required |-> FALSE, ok |-> TRUE]
  BY ReplayOfNothing DEF ReplayStart
<1>4. HistoryOK(<<>>, NewStore)
  <2>1. /\ \A s \in JournalSeq : NewStore.bound[s] = None
        /\ \A f \in Fact : NewStore.fact_seq[f] = None
        /\ NewStore.pending = {}
    BY DEF NewStore
  <2>2. BoundBelow(NewStore) /\ RecordedKinds(NewStore) /\ LastIsOpen(NewStore)
    BY <2>1 DEF BoundBelow, RecordedKinds, LastIsOpen
  <2>3. LoggedIsBound(<<>>, NewStore)
    BY <2>1, NoneAssumption DEF LoggedIsBound
  <2>4. SubmitsOf(NewStore) = {}
    BY <2>1, SupervisorAssumption, NoneAssumption DEF SubmitsOf
  <2>5. OpenOrSettled(NewStore) /\ SettledBetween(NewStore)
    BY <2>4 DEF OpenOrSettled, SettledBetween
  <2>6. IsFiniteSet(NewStore.pending)
    BY <2>1, FS_EmptySet
  <2> QED BY <1>2, <2>2, <2>3, <2>5, <2>6 DEF HistoryOK
<1>5. ReplayOK(<<>>, ReplayPrefix(<<>>))
  <2>1. NewStore.pending = {} /\ NewStore.last_consumed = None
    BY DEF NewStore
  <2> HIDE DEF NewStore
  <2> QED BY <1>3, <1>4, <2>1 DEF ReplayOK
<1>6. StoreInUse(NewStore, <<>>)
  <2>1. ReplayPrefix(<<>>).st = NewStore
    BY <1>3
  <2>2. Agrees(NewStore, NewStore)
    BY DEF Agrees, SameDiscovery, SamePosition
  <2>3. BeforeReconcile(NewStore)
    BY DEF BeforeReconcile, NewStore
  <2> QED BY <1>2, <2>1, <2>2, <2>3 DEF StoreInUse
<1>7. PublishedOK(None, NewStore) /\ LiveOK({}, NewStore) /\ DispatchClean(NewDispatch)
  BY DEF PublishedOK, LiveOK, DispatchClean, IsDispatch, NewDispatch
<1>8. QueueOK(<<>>) /\ <<>> \in Seq(Input)
  BY DEF QueueOK
<1>9. UpOK(sup)
  BY <1>1, <1>5, <1>6, <1>7, <1>8 DEF UpOK, SupOK
<1>10. pc = "idle" /\ snapshot \in RemoteSnapshot
  BY SupervisorAssumption DEF SupervisorInit
<1> QED BY <1>9, <1>10 DEF SupervisorInv, UpOK, Up, Draining, Stage

\* The invariant of a supervisor that is up, and of one that is not.
LEMMA UpIsOK ==
    ASSUME SupervisorInv, Up
    PROVE  UpOK(sup)
BY DEF SupervisorInv, UpOK

\* Every step keeps the invariant.
LEMMA SupervisorNextOK ==
    ASSUME SupervisorInv, [SupervisorNext]_vars
    PROVE  SupervisorInv'
<1>0. pc \in Stage /\ snapshot \in RemoteSnapshot
  BY DEF SupervisorInv
<1>1. ASSUME NEW input \in Input, input.fact \in InputFact, Enqueue(input)
      PROVE  SupervisorInv'
  <2>1. UpOK(sup)
    BY <1>1, UpIsOK DEF Enqueue, Up
  <2>2. pc' = "idle" /\ snapshot' = snapshot
    BY <1>1 DEF Enqueue
  <2>3. sup' = [sup EXCEPT !.queue = InsertBySeq(sup.queue, input)]
    BY <1>1 DEF Enqueue
  <2>4. QueueOK(InsertBySeq(sup.queue, input))
    <3>1. input \in QueuedInput
      BY <1>1 DEF QueuedInput, Input
    <3> QED BY <2>1, <3>1, InsertKeepsQueue DEF UpOK
  <2>5. /\ IsSup(sup') /\ sup'.queue = InsertBySeq(sup.queue, input) /\ sup'.st = sup.st
        /\ sup'.log = sup.log /\ sup'.published = sup.published /\ sup'.live = sup.live
        /\ sup'.dispatch = sup.dispatch
    BY <2>1, <2>3 DEF UpOK, IsSup, SupField
  <2>6. UpOK(sup')
    BY <2>1, <2>4, <2>5 DEF UpOK, SupOK
  <2> QED BY <1>0, <2>2, <2>6 DEF SupervisorInv, UpOK, Up, Draining, Stage
<1>2. CASE RunOnce
  <2>1. UpOK(sup) /\ snapshot' = snapshot
    BY <1>2, UpIsOK DEF RunOnce, Up
  <2>2. UpOK(sup') /\ DrainOK(sup', anchor') /\ pc' = "drain"
    BY <1>0, <1>2, <2>1, RunOnceKeepsUp
  <2> QED BY <1>0, <2>1, <2>2 DEF SupervisorInv, UpOK, Up, Draining, Stage
<1>3. CASE DrainInput
  <2> DEFINE input == sup.queue[NextAfter(sup.queue, anchor)]
  <2>1. UpOK(sup) /\ DrainOK(sup, anchor) /\ snapshot' = snapshot /\ anchor' = anchor
    BY <1>3, UpIsOK DEF DrainInput, Draining, Up, SupervisorInv
  <2>2. pc \in {"drain", "resumed"} /\ AfterAnchor(sup.queue, anchor) # {}
    BY <1>3 DEF DrainInput, Draining
  <2>3. \/ pc' = "idle" /\ sup' = sup
        \/ /\ ApplyOutcome(sup.st, input.seq, input.fact) # "Error"
           /\ pc' = pc /\ sup' = Accept(sup, input)
    BY <1>3 DEF DrainInput
  <2>4. CASE pc' = "idle" /\ sup' = sup
    BY <1>0, <2>1, <2>4 DEF SupervisorInv, UpOK, Up, Draining, Stage
  <2>5. CASE /\ ApplyOutcome(sup.st, input.seq, input.fact) # "Error"
             /\ pc' = pc /\ sup' = Accept(sup, input)
    <3>1. UpOK(sup') /\ DrainOK(sup', anchor)
      BY <2>1, <2>2, <2>5, AcceptOK
    <3> QED BY <1>0, <2>1, <2>2, <2>5, <3>1 DEF SupervisorInv, UpOK, Up, Draining, Stage
  <2> QED BY <2>3, <2>4, <2>5
<1>4. CASE FinishTick
  <2>1. UpOK(sup) /\ snapshot' = snapshot
    BY <1>4, UpIsOK DEF FinishTick, Draining, Up
  <2>2. UpOK(sup') /\ pc' = "idle"
    BY <1>4, <2>1, FinishKeepsUp
  <2> QED BY <1>0, <2>1, <2>2 DEF SupervisorInv, UpOK, Up, Draining, Stage
<1>5. CASE ResumeOnce
  <2> DEFINE rebuilt  == [sup EXCEPT !.st = Rebuilt(sup.log)]
             shown    == PublishCurrentSnapshot(rebuilt, seed, FALSE)
             restored == RetainCurrent([shown EXCEPT !.live = IF seed = None THEN {} ELSE seed.live])
  <2>1. pc = "resume" /\ snapshot' = snapshot /\ seed' = seed
    BY <1>5 DEF ResumeOnce
  <2>2. /\ IsSup(sup) /\ QueueOK(sup.queue)
        /\ sup.log \in Seq(Input) /\ ReplayOK(sup.log, ReplayPrefix(sup.log))
        /\ sup = Down(sup.log, sup.queue) /\ SeedOK(sup.log)
    BY <2>1 DEF SupervisorInv, Up, Down
  <2>3. \/ pc' = "refused" /\ sup' = sup
        \/ pc' = "resumed" /\ sup' = restored /\ anchor' = restored.st.last_consumed
    BY <1>5 DEF ResumeOnce
  <2>4. CASE pc' = "refused" /\ sup' = sup
    <3>1. SeedOK(sup.log)'
      BY <2>1, <2>2, <2>4 DEF SeedOK
    <3> QED BY <1>0, <2>1, <2>2, <2>4, <3>1 DEF SupervisorInv, Up, Draining, Stage, Down
  <2>5. CASE pc' = "resumed" /\ sup' = restored /\ anchor' = restored.st.last_consumed
    <3>1. UpOK(restored)
      BY <2>2, ResumeKeepsUp
    <3> HIDE DEF restored
    <3>2. DrainOK(restored, restored.st.last_consumed)
      BY <3>1, DrainStarts DEF DrainOK
    <3> QED BY <1>0, <2>1, <2>5, <3>1, <3>2 DEF SupervisorInv, UpOK, Up, Draining, Stage
  <2> QED BY <2>3, <2>4, <2>5
<1>6. CASE Crash
  <2>1. UpOK(sup)
    BY <1>6, UpIsOK DEF Crash, Up
  <2>2. /\ pc' = "resume" /\ snapshot' = snapshot
        /\ seed' = Summary(sup) /\ sup' = Down(sup.log, sup.queue)
    BY <1>6 DEF Crash, Down
  <2>3. IsSup(sup') /\ sup'.log = sup.log /\ sup'.queue = sup.queue
    BY <2>2, DownFields
  <2>4. SeedOK(sup.log)'
    <3>1. SUFFICES ASSUME seed' # None
                   PROVE  /\ seed'.pending = Cardinality(ReplayPrefix(sup.log).st.pending)
                          /\ LiveOK(seed'.live, ReplayPrefix(sup.log).st)
      BY <2>3 DEF SeedOK
    <3>2. seed'.pending = Cardinality(sup.st.pending) /\ seed'.live = sup.live
      BY <2>2, <3>1 DEF Summary
    <3>3. Agrees(sup.st, ReplayPrefix(sup.log).st) /\ LiveOK(sup.live, sup.st)
      BY <2>1 DEF UpOK, SupOK, StoreInUse
    <3> QED BY <3>2, <3>3 DEF Agrees, LiveOK
  <2> QED BY <1>0, <2>1, <2>2, <2>3, <2>4 DEF SupervisorInv, UpOK, Up, Draining, Stage, Down
<1>7. CASE UNCHANGED vars
  BY <1>7 DEF vars, SupervisorInv, Up, Draining, SeedOK
<1> QED BY <1>1, <1>2, <1>3, <1>4, <1>5, <1>6, <1>7 DEF SupervisorNext, Tick

---------------------------------------------------------------------------
(***************************************************************************)
(* The inputs: none is lost                                                *)
(***************************************************************************)

Entries(q) == {q[i] : i \in DOMAIN q}

InputsOf(log) == {x \in Entries(log) : x.fact \in InputFact}

LEMMA HeldIs ==
    ASSUME NEW s PROVE Held(s) = Entries(s.queue) \cup InputsOf(s.log)
BY DEF Held, Entries, InputsOf

\* A push adds its input, wherever the sort puts it.
LEMMA InsertedEntries ==
    ASSUME NEW S, NEW q \in Seq(S), NEW input
    PROVE  Entries(InsertBySeq(q, input)) = Entries(q) \cup {input}
<1>1. PICK n \in Nat : n = Len(q) /\ DOMAIN q = 1..n
  BY LenProperties
<1>2. PICK m : m = Cardinality({i \in DOMAIN q : q[i].seq <= input.seq})
  OBVIOUS
<1>3. m \in 0..n
  <2>1. IsFiniteSet(1..n) /\ Cardinality(1..n) = n
    BY FS_Interval
  <2>2. PICK lower : lower = {i \in DOMAIN q : q[i].seq <= input.seq}
    OBVIOUS
  <2>3. lower \subseteq 1..n
    BY <1>1, <2>2
  <2>4. Cardinality(lower) \in Nat /\ Cardinality(lower) <= n
    BY <2>1, <2>3, FS_Subset, FS_CardinalityType
  <2>5. m = Cardinality(lower)
    BY <1>2, <2>2
  <2> QED BY <2>4, <2>5
<1>4. PICK r : r = InsertBySeq(q, input)
  OBVIOUS
<1>5. r = [i \in 1..(n + 1) |-> IF i <= m THEN q[i] ELSE IF i = m + 1 THEN input ELSE q[i - 1]]
  BY <1>1, <1>2, <1>4 DEF InsertBySeq
<1>6. ASSUME NEW x \in Entries(r) PROVE x \in Entries(q) \cup {input}
  <2>1. PICK i \in 1..(n + 1) : x = r[i]
    BY <1>5 DEF Entries
  <2>2. CASE i <= m
    BY <1>1, <1>3, <1>5, <2>1, <2>2 DEF Entries
  <2>3. CASE i = m + 1
    BY <1>3, <1>5, <2>1, <2>3
  <2>4. CASE ~(i <= m) /\ i # m + 1
    <3>1. i - 1 \in 1..n /\ x = q[i - 1]
      BY <1>3, <1>5, <2>1, <2>4
    <3> QED BY <1>1, <3>1 DEF Entries
  <2> QED BY <2>2, <2>3, <2>4
<1>7. ASSUME NEW x \in Entries(q) PROVE x \in Entries(r)
  <2>1. PICK i \in 1..n : x = q[i]
    BY <1>1 DEF Entries
  <2>2. CASE i <= m
    <3>1. i \in 1..(n + 1) /\ r[i] = x
      BY <1>5, <2>1, <2>2
    <3> QED BY <1>5, <3>1 DEF Entries
  <2>3. CASE ~(i <= m)
    <3>1. i + 1 \in 1..(n + 1) /\ ~(i + 1 <= m) /\ i + 1 # m + 1 /\ (i + 1) - 1 = i
      BY <1>3, <2>3
    <3>2. r[i + 1] = x
      BY <1>5, <2>1, <3>1
    <3> QED BY <1>5, <3>1, <3>2 DEF Entries
  <2> QED BY <2>2, <2>3
<1>8. input \in Entries(r)
  <2>1. m + 1 \in 1..(n + 1) /\ ~(m + 1 <= m)
    BY <1>3
  <2>2. r[m + 1] = input
    BY <1>5, <2>1
  <2> QED BY <1>5, <2>1, <2>2 DEF Entries
<1> QED BY <1>4, <1>6, <1>7, <1>8

\* What is removed is the one entry.
LEMMA RemovedEntries ==
    ASSUME NEW q \in Seq(QueuedInput), NEW n \in DOMAIN q, NEW r, r = RemoveFirst(q, q[n])
    PROVE  Entries(r) \cup {q[n]} = Entries(q)
<1>1. PICK len \in Nat : len = Len(q) /\ DOMAIN q = 1..len
  BY LenProperties
<1>2. PICK at \in DOMAIN q : RemovedAt(r, q, at) /\ q[at] = q[n]
  BY RemoveFields
<1>3. DOMAIN r = 1..(len - 1) /\ \A i \in 1..(len - 1) : r[i] = IF i < at THEN q[i] ELSE q[i + 1]
  BY <1>1, <1>2 DEF RemovedAt
<1>4. at \in 1..len
  BY <1>1
<1>5. ASSUME NEW x \in Entries(r) PROVE x \in Entries(q)
  <2>1. PICK i \in 1..(len - 1) : x = r[i]
    BY <1>3 DEF Entries
  <2>2. i \in 1..len /\ i + 1 \in 1..len /\ (x = q[i] \/ x = q[i + 1])
    BY <1>3, <2>1
  <2> QED BY <1>1, <2>2 DEF Entries
<1>6. ASSUME NEW x \in Entries(q) PROVE x \in Entries(r) \cup {q[n]}
  <2>1. PICK i \in 1..len : x = q[i]
    BY <1>1 DEF Entries
  <2>2. CASE i < at
    <3>1. i \in 1..(len - 1) /\ r[i] = x
      BY <1>3, <1>4, <2>1, <2>2
    <3> QED BY <1>3, <3>1 DEF Entries
  <2>3. CASE i = at
    BY <1>2, <2>1, <2>3
  <2>4. CASE i > at
    <3>1. i - 1 \in 1..(len - 1) /\ ~(i - 1 < at) /\ (i - 1) + 1 = i
      BY <1>4, <2>4
    <3>2. r[i - 1] = x
      BY <1>3, <2>1, <3>1
    <3> QED BY <1>3, <3>1, <3>2 DEF Entries
  <2> QED BY <1>4, <2>2, <2>3, <2>4
<1>7. q[n] \in Entries(q)
  BY DEF Entries
<1> QED BY <1>5, <1>6, <1>7

\* An entry of the log is there after it was recorded, and nothing else is new.
LEMMA RecordedEntries ==
    ASSUME NEW log \in Seq(Input), NEW input
    PROVE  Entries(RecordCommittedInput(log, input)) = Entries(log) \cup {input}
<1>1. CASE \E i \in DOMAIN log : log[i] = input
  BY <1>1 DEF RecordCommittedInput, Entries
<1>2. CASE ~\E i \in DOMAIN log : log[i] = input
  BY <1>2, InsertedEntries DEF RecordCommittedInput
<1> QED BY <1>1, <1>2

\* Publishing touches neither queue nor log.
LEMMA PublishKeepsInputs ==
    ASSUME NEW s, IsSup(s), NEW known, NEW allow, NEW q, q = PublishCurrentSnapshot(s, known, allow)
    PROVE  IsSup(q) /\ q.queue = s.queue /\ q.log = s.log
<1>1. ASSUME NEW t, IsSup(t), NEW u, u = RetainCurrent(t)
      PROVE  IsSup(u) /\ u.queue = t.queue /\ u.log = t.log
  <2>1. PICK live : live = IF t.published = None THEN {} ELSE {v \in t.live : v = t.published.version}
    OBVIOUS
  <2>2. u = [t EXCEPT !.live = live]
    BY <1>1, <2>1 DEF RetainCurrent
  <2> QED BY <1>1, <2>2 DEF IsSup, SupField
<1>2. CASE s.st.last_applied = None
  <2>1. PICK t : t = [s EXCEPT !.evidence = None]
    OBVIOUS
  <2>2. IsSup(t) /\ t.queue = s.queue /\ t.log = s.log
    BY <2>1 DEF IsSup, SupField
  <2>3. q = RetainCurrent(t)
    BY <1>2, <2>1 DEF PublishCurrentSnapshot
  <2> QED BY <1>1, <2>2, <2>3
<1>3. CASE s.st.last_applied # None
  <2>1. PICK new : new = Published(s.st)
    OBVIOUS
  <2>2. PICK evidence : evidence = RolloutEvidence(new.version, known, allow)
    OBVIOUS
  <2>3. PICK d : d = ObserveSnapshot(s.dispatch, new.version,
                                     IF new.fullset # None THEN {"fullset"} ELSE {})
    OBVIOUS
  <2>4. PICK t : t = [s EXCEPT !.published = new, !.evidence = evidence, !.dispatch = d]
    OBVIOUS
  <2>5. IsSup(t) /\ t.queue = s.queue /\ t.log = s.log
    BY <2>4 DEF IsSup, SupField
  <2>6. q = RetainCurrent(t)
    BY <1>3, <2>1, <2>2, <2>3, <2>4 DEF PublishCurrentSnapshot
  <2> QED BY <1>1, <2>5, <2>6
<1> QED BY <1>2, <1>3

\* An input that is drained goes from the queue to the log.
LEMMA AcceptKeepsInputs ==
    ASSUME NEW s, IsSup(s), s.queue \in Seq(QueuedInput), s.log \in Seq(Input),
           NEW n \in DOMAIN s.queue, NEW input, input = s.queue[n], NEW q, q = Accept(s, input)
    PROVE  Held(q) = Held(s)
<1>1. PICK st : st = ApplyInputStore(s.st, input.seq, input.fact)
  OBVIOUS
<1>2. PICK log : log = RecordCommittedInput(s.log, input)
  OBVIOUS
<1>3. PICK queue : queue = RemoveFirst(s.queue, input)
  OBVIOUS
<1>4. PICK t : t = [s EXCEPT !.st = st, !.log = log, !.queue = queue]
  OBVIOUS
<1>5. IsSup(t) /\ t.queue = queue /\ t.log = log
  BY <1>4 DEF IsSup, SupField
<1>6. q.queue = queue /\ q.log = log
  <2>1. CASE ApplyOutcome(s.st, input.seq, input.fact) # "Applied"
    <3>1. q = t
      BY <1>1, <1>2, <1>3, <1>4, <2>1 DEF Accept
    <3> QED BY <1>5, <3>1
  <2>2. CASE ApplyOutcome(s.st, input.seq, input.fact) = "Applied"
    <3>1. PICK d : d = RecordApply(s.dispatch, t.st.version, DirtySetOf(input.fact))
      OBVIOUS
    <3>2. PICK u : u = [t EXCEPT !.published = None, !.dispatch = d]
      OBVIOUS
    <3>3. PICK allow : allow = FALSE
      OBVIOUS
    <3>4. q = PublishCurrentSnapshot(u, seed, allow)
      BY <1>1, <1>2, <1>3, <1>4, <2>2, <3>1, <3>2, <3>3 DEF Accept
    <3>5. IsSup(u) /\ u.queue = queue /\ u.log = log
      BY <1>5, <3>2 DEF IsSup, SupField
    <3> QED BY <3>4, <3>5, PublishKeepsInputs
  <2> QED BY <2>1, <2>2
<1>7. Entries(queue) \cup {input} = Entries(s.queue)
  BY <1>3, RemovedEntries
<1>8. Entries(log) = Entries(s.log) \cup {input}
  BY <1>2, RecordedEntries
<1>9. input.fact \in InputFact
  <2>1. input \in QueuedInput
    OBVIOUS
  <2> QED BY <2>1 DEF QueuedInput
<1>10. InputsOf(log) = InputsOf(s.log) \cup {input}
  BY <1>8, <1>9 DEF InputsOf
<1> QED BY <1>6, <1>7, <1>10, HeldIs

\* A submit is no input.
LEMMA SubmitKeepsInputs ==
    ASSUME NEW s, IsSup(s), s.log \in Seq(Input), s.published.version \in DOMAIN LiveFact,
           NEW q, q = ApplyLiveSubmitFact(s)
    PROVE  Held(q) = Held(s)
<1>1. PICK input : input = [seq |-> s.st.last_consumed + 1, fact |-> LiveFact[s.published.version]]
  OBVIOUS
<1>2. PICK log : log = RecordCommittedInput(s.log, input)
  OBVIOUS
<1>3. PICK st : st = ApplyInputStore(s.st, input.seq, input.fact)
  OBVIOUS
<1>4. PICK live : live = {s.published.version}
  OBVIOUS
<1>5. q = [s EXCEPT !.st = st, !.log = log, !.live = live]
  BY <1>1, <1>2, <1>3, <1>4 DEF ApplyLiveSubmitFact
<1>6. q.queue = s.queue /\ q.log = log
  BY <1>5 DEF IsSup, SupField
<1>7. Entries(log) = Entries(s.log) \cup {input}
  BY <1>2, RecordedEntries
<1>8. input.fact \notin InputFact
  BY <1>1, SupervisorAssumption
<1>9. InputsOf(log) = InputsOf(s.log)
  BY <1>7, <1>8 DEF InputsOf
<1> QED BY <1>6, <1>9, HeldIs

\* Same queue and log, same inputs.
LEMMA SameHeld ==
    ASSUME NEW s, NEW q, q.queue = s.queue, q.log = s.log PROVE Held(q) = Held(s)
BY DEF Held

LEMMA KeptStep ==
    ASSUME SupervisorInv, InputsAreKept, [SupervisorNext]_vars PROVE InputsAreKept'
<1>1. /\ IsSup(sup) /\ sup.queue \in Seq(QueuedInput) /\ sup.log \in Seq(Input) /\ QueueOK(sup.queue)
      /\ Held(sup) = inputs
  BY DEF SupervisorInv, QueueOK, InputsAreKept
<1>2. SUFFICES Held(sup') = inputs'
  BY DEF InputsAreKept, Held
<1>3. ASSUME NEW input \in Input, Enqueue(input) PROVE Held(sup') = inputs'
  <2>1. PICK queue : queue = InsertBySeq(sup.queue, input)
    OBVIOUS
  <2>2. sup' = [sup EXCEPT !.queue = queue] /\ inputs' = inputs \cup {input}
    BY <1>3, <2>1 DEF Enqueue
  <2>3. sup'.queue = queue /\ sup'.log = sup.log
    BY <1>1, <2>2 DEF IsSup, SupField
  <2>4. Entries(queue) = Entries(sup.queue) \cup {input}
    BY <1>1, <2>1, InsertedEntries
  <2>5. Held(sup') = Entries(sup'.queue) \cup InputsOf(sup'.log)
    BY HeldIs
  <2>6. Held(sup) = Entries(sup.queue) \cup InputsOf(sup.log)
    BY HeldIs
  <2> QED BY <1>1, <2>2, <2>3, <2>4, <2>5, <2>6
<1>4. CASE RunOnce
  <2>1. PICK st : st = IF sup.st.first_reconcile THEN sup.st ELSE BootstrapStore(sup.st, snapshot)
    OBVIOUS
  <2>2. PICK booted : booted = [sup EXCEPT !.st = st]
    OBVIOUS
  <2>3. PICK allow : allow = AllowOperatorSynthesis(booted)
    OBVIOUS
  <2>4. PICK shown : shown = PublishCurrentSnapshot(booted, seed, allow)
    OBVIOUS
  <2>5. /\ inputs' = inputs
        /\ \/ shown.published.version \in DOMAIN LiveFact /\ sup' = ApplyLiveSubmitFact(shown)
           \/ sup' = shown
    BY <1>4, <2>1, <2>2, <2>3, <2>4 DEF RunOnce
  <2>6. IsSup(booted) /\ booted.queue = sup.queue /\ booted.log = sup.log
    BY <1>1, <2>2 DEF IsSup, SupField
  <2>7. IsSup(shown) /\ shown.queue = sup.queue /\ shown.log = sup.log
    BY <2>4, <2>6, PublishKeepsInputs
  <2>8. Held(shown) = Held(sup)
    BY <2>7, SameHeld
  <2>9. Held(sup') = Held(shown)
    BY <1>1, <2>5, <2>7, SubmitKeepsInputs
  <2> QED BY <1>1, <2>5, <2>8, <2>9
<1>5. CASE DrainInput
  <2>1. PICK n : n = NextAfter(sup.queue, anchor)
    OBVIOUS
  <2>2. n \in DOMAIN sup.queue
    BY <1>1, <1>5, <2>1, NextAfterIsFirst DEF DrainInput
  <2>3. inputs' = inputs /\ (sup' = sup \/ sup' = Accept(sup, sup.queue[n]))
    BY <1>5, <2>1 DEF DrainInput
  <2> QED BY <1>1, <2>2, <2>3, AcceptKeepsInputs
<1>6. CASE FinishTick
  <2> PICK allow : allow = FALSE
    OBVIOUS
  <2>1. PICK end : end = IF pc = "resumed" /\ sup.published = None /\ sup.st.version > 0
                         THEN PublishCurrentSnapshot(sup, seed, allow) ELSE sup
    OBVIOUS
  <2>2. IsSup(end) /\ end.queue = sup.queue /\ end.log = sup.log
    BY <1>1, <2>1, PublishKeepsInputs
  <2>3. PICK d : d = Flush(end.dispatch)
    OBVIOUS
  <2>4. inputs' = inputs /\ (sup' = end \/ sup' = [end EXCEPT !.dispatch = d])
    BY <1>6, <2>1, <2>3 DEF FinishTick
  <2>5. sup'.queue = sup.queue /\ sup'.log = sup.log
    BY <2>2, <2>4 DEF IsSup, SupField
  <2> QED BY <1>1, <2>4, <2>5, SameHeld
<1>7. CASE ResumeOnce
  <2>1. PICK rebuilt : rebuilt = [sup EXCEPT !.st = Rebuilt(sup.log)]
    OBVIOUS
  <2> PICK allow : allow = FALSE
    OBVIOUS
  <2>2. PICK shown : shown = PublishCurrentSnapshot(rebuilt, seed, allow)
    OBVIOUS
  <2>3. PICK mid : mid = [shown EXCEPT !.live = IF seed = None THEN {} ELSE seed.live]
    OBVIOUS
  <2>4. inputs' = inputs /\ (sup' = sup \/ sup' = RetainCurrent(mid))
    BY <1>7, <2>1, <2>2, <2>3 DEF ResumeOnce
  <2>5. IsSup(rebuilt) /\ rebuilt.queue = sup.queue /\ rebuilt.log = sup.log
    BY <1>1, <2>1 DEF IsSup, SupField
  <2>6. IsSup(shown) /\ shown.queue = sup.queue /\ shown.log = sup.log
    BY <2>2, <2>5, PublishKeepsInputs
  <2>7. IsSup(mid) /\ mid.queue = sup.queue /\ mid.log = sup.log
    BY <2>3, <2>6 DEF IsSup, SupField
  <2>8. PICK live : live = IF mid.published = None THEN {}
                           ELSE {v \in mid.live : v = mid.published.version}
    OBVIOUS
  <2>9. RetainCurrent(mid) = [mid EXCEPT !.live = live]
    BY <2>8 DEF RetainCurrent
  <2>10. sup'.queue = sup.queue /\ sup'.log = sup.log
    BY <2>4, <2>7, <2>9 DEF IsSup, SupField
  <2> QED BY <1>1, <2>4, <2>10, SameHeld
<1>8. CASE Crash
  <2>1. inputs' = inputs /\ sup' = Down(sup.log, sup.queue)
    BY <1>8 DEF Crash, Down
  <2>2. sup'.queue = sup.queue /\ sup'.log = sup.log
    BY <2>1, DownFields
  <2> QED BY <1>1, <2>1, <2>2, SameHeld
<1>9. CASE UNCHANGED vars
  BY <1>1, <1>9 DEF vars
<1> QED BY <1>3, <1>4, <1>5, <1>6, <1>7, <1>8, <1>9 DEF SupervisorNext, Tick

\* The inductive invariant.
LEMMA SupervisorInvariant == SupervisorSpec => []SupervisorInv
<1>1. SupervisorInit => SupervisorInv
  BY SupervisorInitOK
<1>2. SupervisorInv /\ [SupervisorNext]_vars => SupervisorInv'
  BY SupervisorNextOK
<1> QED BY <1>1, <1>2, PTL DEF SupervisorSpec

---------------------------------------------------------------------------
(***************************************************************************)
(* The theorems                                                            *)
(***************************************************************************)

\* The committed log is enough to rebuild the store of a supervisor that is up,
\* however many inputs, refusals, submits and crashes came before
\* (record_committed_input beside every apply_input, replay_committed_history).
THEOREM LogAlwaysRebuildsStore == SupervisorSpec => []LogRebuildsStore
<1>1. SupervisorInv => LogRebuildsStore
  BY DEF SupervisorInv, ReplayOK, SupOK, StoreInUse, Agrees, SameDiscovery, LogRebuildsStore
<1> QED BY <1>1, SupervisorInvariant, PTL

\* Every input that has arrived waits in the queue or is in the committed log,
\* after every refused input, aborted drain, crash and resume
\* (drain_input_tasks, IngressQueue::remove, record_committed_input, resume_once).
THEOREM InputsAreAlwaysKept == SupervisorSpec => []InputsAreKept
<1>1. SupervisorInit => InputsAreKept
  BY DEF SupervisorInit, NewSupervisor, InputsAreKept, Held
<1>2. InputsAreKept /\ SupervisorInv /\ SupervisorInv' /\ [SupervisorNext]_vars => InputsAreKept'
  BY KeptStep
<1> QED BY <1>1, <1>2, SupervisorInvariant, PTL DEF SupervisorSpec

\* Between two steps nothing of the full-set route is dirty
\* (drain_input_tasks, publish_current_snapshot, observe_snapshot).
THEOREM FullSetAlwaysKeepsUp == SupervisorSpec => []FullSetNeverLags
<1>1. SupervisorInv => FullSetNeverLags
  BY DEF SupervisorInv, SupOK, DispatchClean, FullSetNeverLags
<1> QED BY <1>1, SupervisorInvariant, PTL

\* A live record that is shown has its submit among the pending reconciles,
\* after a resume as well
\* (retain_current_neg_risk_live_execution_records, apply_live_submit_facts).
THEOREM LiveRecordStaysPending == SupervisorSpec => []LiveRecordIsPending
<1>1. SupervisorInv => LiveRecordIsPending
  <2>1. ASSUME SupervisorInv, Up PROVE LiveRecordIsPending
    BY <2>1 DEF SupervisorInv, SupOK, LiveOK, LiveRecordIsPending
  <2>2. ASSUME SupervisorInv, ~Up PROVE LiveRecordIsPending
    <3>1. sup = Down(sup.log, sup.queue)
      BY <2>2 DEF SupervisorInv, Down
    <3> QED BY <3>1, DownFields DEF LiveRecordIsPending
  <2> QED BY <2>1, <2>2
<1> QED BY <1>1, SupervisorInvariant, PTL

\* Between two submits of the journal there is the report that settled the
\* first, however often the supervisor ticks, crashes and is resumed
\* (allow_operator_rollout_evidence_synthesis, resume_once).
THEOREM SubmitsAreSettledBetween == SupervisorSpec => []SettledBetweenSubmits
<1>1. ASSUME SupervisorInv, Up
      PROVE  \A a, b \in LiveSubmits :
                 a < b => \E c \in JournalSeq : a < c /\ c < b /\ SettledAt(a, c)
  <2> DEFINE old == ReplayPrefix(sup.log).st
  <2>1. Agrees(sup.st, old) /\ SettledBetween(old)
    BY <1>1 DEF SupervisorInv, SupOK, StoreInUse, ReplayOK, HistoryOK
  <2> HIDE DEF old
  <2>2. SubmitsOf(old) = LiveSubmits /\ \A a, c : SettledIn(old, a, c) <=> SettledAt(a, c)
    BY <2>1 DEF Agrees, SubmitsOf, LiveSubmits, SettledIn, SettledAt
  <2> QED BY <2>1, <2>2 DEF SettledBetween
<1>2. SupervisorInv => SettledBetweenSubmits
  BY <1>1 DEF SettledBetweenSubmits
<1> QED BY <1>2, SupervisorInvariant, PTL
=============================================================================
