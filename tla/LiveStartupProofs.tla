------------------------- MODULE LiveStartupProofs -------------------------
(***************************************************************************)
(* Proofs that runs of app-live which follow each other never submit again *)
(* once a live attempt is durable, never record a second one, and never    *)
(* take the durable journal position back, for any number of runs, any     *)
(* configurations, and a failure or crash between any two of their steps.  *)
(***************************************************************************)
EXTENDS LiveStartup, StateStoreProofs, SequenceTheorems

---------------------------------------------------------------------------
(***************************************************************************)
(* The inductive invariant, for a behaviour in which no runs overlapped    *)
(***************************************************************************)

ProcField == {"pc", "run", "config", "progress", "loaded", "st", "todo", "submitted", "records"}

\* A process is a function on its fields.
IsProc(me) == me = [x \in ProcField |-> me[x]]

\* What a run that follows others finds in the database.  The only facts it
\* applies are submits, which never advance a version.
DurableOK(seen, rows) ==
    /\ seen # None => seen.seq \in Nat /\ seen.version = 0
    /\ \A a \in rows : a.version = 0
    /\ \A a, b \in AttemptsOf("Live", rows) : a = b

\* A store that is not behind the durable position.
StoreAhead(st, seen) ==
    /\ st.version = 0
    /\ st.last_consumed \in Nat
    /\ seen # None => st.last_consumed >= seen.seq

\* A store that was just restored: nothing is pending, bound or applied.
FreshStore(st) ==
    /\ st \in StoreType
    /\ st.pending = {}
    /\ st.bound = [s \in JournalSeq |-> None]
    /\ st.fact_seq = [f \in Fact |-> None]

\* What a run knows where it is, when seen is the durable progress and live the
\* live attempts.  From the decision to submit until the attempt is written no
\* live attempt is durable, and at most one is to be written.
StageOK(me, seen, live) ==
    /\ me.pc # "idle" => me.config \in Config
    /\ me.pc \in {"load_attempts", "load_records", "restore"} => me.progress = seen
    /\ me.pc \in {"load_progress", "load_attempts", "load_records", "restore"} =>
           me.submitted = <<>>
    /\ me.pc = "load_records" => me.loaded = live
    /\ me.pc = "restore" =>
           AttemptsOf("Live", me.loaded) = live /\ \A a \in me.loaded : a.version = 0
    /\ me.pc = "submit" =>
           /\ live = {}
           /\ me.todo \subseteq DOMAIN me.config.targets
           /\ me.submitted \in Seq(Family)
           /\ FreshStore(me.st)
    /\ me.pc \in {"submit", "persist_attempt", "persist_submission", "persist_shadow",
                  "persist_progress"} => StoreAhead(me.st, seen)
    /\ me.pc = "persist_attempt" =>
           me.records = <<>> \/ (live = {} /\ \E m \in Family : me.records = <<m>>)
    /\ me.pc = "persist_submission" => \E m \in Family : me.records = <<m>>

ProcessesOK(procs, seen, live) ==
    /\ procs = [q \in Process |-> procs[q]]
    /\ \A q \in Process : IsProc(procs[q]) /\ StageOK(procs[q], seen, live)
    /\ \A q, r \in Process : procs[q].pc # "idle" /\ procs[r].pc # "idle" => q = r

StartupOK ==
    /\ anchors = {}
    /\ DurableOK(progress, attempts)
    /\ ProcessesOK(proc, progress, LiveAttempts)

StartupInv == ~overlapped => StartupOK

\* What no step does while runs follow each other.
StepOK ==
    /\ LiveAttempts # {} => venue' = venue
    /\ progress # None => progress'.seq >= progress.seq /\ progress'.version >= progress.version

---------------------------------------------------------------------------
(***************************************************************************)
(* The store of a run                                                      *)
(***************************************************************************)

\* restore_seeded_startup_state gives a fresh store at the durable position.
LEMMA RestoredIsFresh ==
    ASSUME NEW seen, seen # None => seen.seq \in Nat /\ seen.version = 0,
           NEW r, r = RestoredStore(seen, {})
    PROVE  FreshStore(r) /\ StoreAhead(r, seen)
<1> DEFINE seq      == IF seen = None THEN 0 ELSE seen.seq
           counted  == [NewStore EXCEPT !.version = 0, !.last_consumed = seq,
                                        !.last_applied = seq]
           rebuilt  == RebuildFullSetAnchor(counted, seq)
           done     == [rebuilt EXCEPT !.first_reconcile = TRUE]
           anchored == ApplyRestorePosture(done)
           refless  == [anchored EXCEPT !.pending = {}]
           postured == ApplyRestorePosture(refless)
<1>0. seq \in Nat /\ seq # None
  BY NoneIsNoNumber
<1>1. r = [postured EXCEPT !.first_reconcile = TRUE]
  BY DEF RestoredStore, RestoreCommittedAnchor
<1> HIDE DEF seq
<1>2. NewStore \in StoreType
  BY NewStoreOK DEF StoreOK
<1>3. /\ NewStore.pending = {} /\ NewStore.bound = [s \in JournalSeq |-> None]
      /\ NewStore.fact_seq = [f \in Fact |-> None]
  BY DEF NewStore
<1>4. /\ counted \in StoreType /\ counted.version = 0 /\ counted.last_consumed = seq
      /\ counted.bound = NewStore.bound /\ counted.fact_seq = NewStore.fact_seq
      /\ counted.pending = NewStore.pending
  BY <1>0, <1>2 DEF StoreType, OptionOf
<1> HIDE DEF counted
<1>5. rebuilt \in StoreType /\ SameJournal(rebuilt, counted) /\ rebuilt.pending = counted.pending
  BY <1>0, <1>4, RebuildFields
<1> HIDE DEF rebuilt
<1>6. done \in StoreType /\ SameJournal(done, rebuilt) /\ done.pending = rebuilt.pending
  BY <1>5 DEF StoreType, SameJournal
<1> HIDE DEF done
<1>7. PostureOK(done)
  BY <1>3, <1>4, <1>5, <1>6 DEF PostureOK
<1>8. anchored \in StoreType /\ SameJournal(anchored, done) /\ anchored.pending = done.pending
  BY <1>6, <1>7, PostureFields
<1> HIDE DEF anchored
<1>9. refless \in StoreType /\ SameJournal(refless, anchored) /\ refless.pending = {}
  BY <1>8 DEF StoreType, SameJournal
<1> HIDE DEF refless
<1>10. PostureOK(refless)
  BY <1>9 DEF PostureOK
<1>11. postured \in StoreType /\ SameJournal(postured, refless) /\ postured.pending = {}
  BY <1>9, <1>10, PostureFields
<1> HIDE DEF postured
<1>12. r \in StoreType /\ SameJournal(r, postured) /\ r.pending = {}
  BY <1>1, <1>11 DEF StoreType, SameJournal
<1>13. /\ r.version = 0 /\ r.last_consumed = seq
       /\ r.bound = [s \in JournalSeq |-> None] /\ r.fact_seq = [f \in Fact |-> None]
  BY <1>3, <1>4, <1>5, <1>6, <1>8, <1>9, <1>11, <1>12 DEF SameJournal
<1>14. seen # None => seq = seen.seq
  BY DEF seq
<1> QED BY <1>0, <1>12, <1>13, <1>14 DEF FreshStore, StoreAhead

\* A submit fact applied to a fresh store opens its anchor, and moves nothing
\* but the last consumed position.
LEMMA SubmitOpensPending ==
    ASSUME NEW st, FreshStore(st), st.version = 0, st.last_consumed \in Nat,
           NEW f \in Fact, st.last_consumed + 1 \in JournalSeq,
           NEW r, r = ApplyInputStore(st, st.last_consumed + 1, f)
    PROVE  r.pending # {} /\ r.version = 0 /\ r.last_consumed = st.last_consumed + 1
<1> DEFINE seq      == st.last_consumed + 1
           consumed == ConsumeJournalSeq(st, seq, f)
           opened   == [consumed EXCEPT !.pending = consumed.pending \cup {RefOf[f]}]
           marked   == [opened EXCEPT !.first_reconcile = TRUE]
           once     == EnterReconciling(marked)
           again    == [once EXCEPT !.first_reconcile = TRUE]
<1>1. st \in StoreType /\ seq \in JournalSeq /\ seq \in Nat /\ ~(seq <= st.last_consumed)
  BY DEF FreshStore
<1>2. JournalConsumption(st, seq, f) = "Consumed"
  BY <1>1 DEF JournalConsumption, FreshStore
<1>3. Kind[f] = "Pending" /\ st.fact_seq[f] = None
  BY StartupAssumption DEF FreshStore
<1>4. ApplyOutcome(st, seq, f) = "ReconcileRequired"
  BY <1>2, <1>3 DEF ApplyOutcome, AppliedKind
<1>5. r = EnterReconciling(again)
  BY <1>3, <1>4 DEF ApplyInputStore, Apply, MarkReconcileRequired
<1>6. consumed = ConsumeJournalSeq(st, seq, f)
  OBVIOUS
<1> HIDE DEF seq, consumed
<1>7. /\ consumed \in StoreType /\ consumed.version = st.version
      /\ consumed.last_consumed = seq
  <2>1. /\ consumed \in StoreType
        /\ consumed.version = st.version /\ consumed.last_applied = st.last_applied
        /\ consumed.fact_seq = st.fact_seq /\ consumed.pending = st.pending
        /\ consumed.anchor = st.anchor /\ consumed.orders = st.orders
        /\ consumed.tables = st.tables
        /\ consumed.mode = st.mode /\ consumed.overlay = st.overlay
        /\ consumed.last_consumed = seq /\ consumed.bound = [st.bound EXCEPT ![seq] = f]
    BY <1>1, <1>2, <1>6, ConsumeFields
  <2> QED BY <2>1
<1>8. /\ opened \in StoreType /\ opened.version = 0 /\ opened.last_consumed = seq
      /\ opened.pending # {}
  <2>1. RefOf[f] \in PendingRef
    BY ConstantsAssumption
  <2> QED BY <1>7, <2>1 DEF StoreType
<1> HIDE DEF opened
<1>9. /\ marked \in StoreType /\ marked.version = 0 /\ marked.last_consumed = seq
      /\ marked.pending # {}
  BY <1>8 DEF StoreType
<1> HIDE DEF marked
<1>10. once \in StoreType /\ SameJournal(once, marked) /\ once.pending = marked.pending
  BY <1>9, ReconcilingFields
<1> HIDE DEF once
<1>11. again \in StoreType /\ SameJournal(again, once) /\ again.pending = once.pending
  BY <1>10 DEF StoreType, SameJournal
<1> HIDE DEF again
<1>12. SameJournal(r, again) /\ r.pending = again.pending
  BY <1>5, <1>11, ReconcilingFields
<1>13. r.last_consumed = seq /\ r.version = 0 /\ r.pending # {}
  BY <1>9, <1>10, <1>11, <1>12 DEF SameJournal
<1> QED BY <1>13 DEF seq

\* What apply_live_submit_facts leaves behind: the store itself, or the store
\* after the first of the submits, whatever their number.
AppliedResult(st, submitted) ==
    IF submitted = <<>> THEN [st |-> st, records |-> <<>>]
    ELSE [st |-> ApplyInputStore(st, st.last_consumed + 1, SubmitFact(submitted[1])),
          records |-> <<submitted[1]>>]

\* One turn of its loop.
SubmitTurn(before, m) ==
    IF before.st.pending # {} THEN before
    ELSE [st |-> ApplyInputStore(before.st, before.st.last_consumed + 1, SubmitFact(m)),
          records |-> Append(before.records, m)]

\* A function that follows the loop up to a length.
Turns(g, st, submitted, n) ==
    g = [k \in 0..n |-> IF k = 0 THEN [st |-> st, records |-> <<>>]
                                 ELSE SubmitTurn(g[k - 1], submitted[k])]

\* What the first turn leaves.
FirstTurn(st, submitted) == SubmitTurn([st |-> st, records |-> <<>>], submitted[1])

\* Where the loop ends, if it turns at all.
LEMMA TurnsStop ==
    ASSUME NEW st, NEW submitted, NEW n \in Nat, n # 0,
           FirstTurn(st, submitted).st.pending # {},
           NEW g, Turns(g, st, submitted, n)
    PROVE  g[n] = FirstTurn(st, submitted)
<1> DEFINE one == FirstTurn(st, submitted)
           Bad == {j \in 1..n : g[j] # one}
<1>1. SUFFICES ASSUME Bad # {} PROVE FALSE
  <2>1. n \in 1..n
    OBVIOUS
  <2> QED BY <2>1
<1>2. PICK j \in Bad : \A i \in Bad : j <= i
  <2>1. Bad \subseteq Nat
    OBVIOUS
  <2> HIDE DEF Bad
  <2> QED BY <1>1, <2>1, LeastNat
<1>3. j \in 1..n /\ g[j] # one
  BY <1>2
<1>4. g[0] = [st |-> st, records |-> <<>>] /\ g[j] = SubmitTurn(g[j - 1], submitted[j])
  BY <1>3 DEF Turns
<1>5. CASE j = 1
  BY <1>3, <1>4, <1>5 DEF FirstTurn
<1>6. CASE j # 1
  <2>1. j - 1 \in 1..n /\ ~(j <= j - 1)
    BY <1>3, <1>6
  <2>2. g[j - 1] = one
    BY <1>2, <2>1
  <2> QED BY <1>3, <1>4, <2>2 DEF SubmitTurn
<1> QED BY <1>5, <1>6

\* The break after the first submit: apply_live_submit_facts as a whole.
LEMMA AppliedSubmitsStop ==
    ASSUME NEW st, FreshStore(st), st.version = 0, st.last_consumed \in Nat,
           st.last_consumed + 1 \in JournalSeq, NEW submitted \in Seq(Family)
    PROVE  AppliedSubmits(st, submitted) = AppliedResult(st, submitted)
<1> DEFINE start == [st |-> st, records |-> <<>>]
           one   == FirstTurn(st, submitted)
           n     == Len(submitted)
           upTo[k \in 0..n] == IF k = 0 THEN start ELSE
               IF upTo[k - 1].st.pending # {} THEN upTo[k - 1]
               ELSE [st |-> ApplyInputStore(upTo[k - 1].st, upTo[k - 1].st.last_consumed + 1,
                                            SubmitFact(submitted[k])),
                     records |-> Append(upTo[k - 1].records, submitted[k])]
           e     == [k \in 0..n |-> IF k = 0 THEN start ELSE one]
<1>0. n \in Nat
  OBVIOUS
<1>1. AppliedSubmits(st, submitted) = upTo[n]
  BY DEF AppliedSubmits
<1>2. upTo = CHOOSE g : g = [k \in 0..n |-> IF k = 0 THEN start ELSE SubmitTurn(g[k - 1], submitted[k])]
  BY DEF upTo, SubmitTurn
<1> HIDE DEF upTo
<1>3. st.pending = {}
  BY DEF FreshStore
<1>4. submitted # <<>> =>
          /\ one = [st |-> ApplyInputStore(st, st.last_consumed + 1, SubmitFact(submitted[1])),
                    records |-> <<submitted[1]>>]
          /\ one.st.pending # {}
  <2>1. SUFFICES ASSUME submitted # <<>>
                 PROVE  /\ one = [st |-> ApplyInputStore(st, st.last_consumed + 1,
                                                         SubmitFact(submitted[1])),
                                  records |-> <<submitted[1]>>]
                        /\ one.st.pending # {}
    OBVIOUS
  <2>2. submitted[1] \in Family
    BY <2>1
  <2>3. SubmitFact(submitted[1]) \in Fact
    BY <2>2, StartupAssumption DEF SubmitFact
  <2>4. ApplyInputStore(st, st.last_consumed + 1, SubmitFact(submitted[1])).pending # {}
    BY <2>3, SubmitOpensPending
  <2>5. one = [st |-> ApplyInputStore(st, st.last_consumed + 1, SubmitFact(submitted[1])),
               records |-> <<submitted[1]>>]
    BY <1>3 DEF SubmitTurn, FirstTurn
  <2> QED BY <2>4, <2>5
<1>5. Turns(e, st, submitted, n)
  <2>1. ASSUME NEW k \in 0..n PROVE e[k] = IF k = 0 THEN start ELSE SubmitTurn(e[k - 1], submitted[k])
    <3>1. CASE k = 0
      BY <3>1
    <3>2. CASE k = 1
      <4>1. e[1] = one /\ e[0] = start
        BY <1>0, <3>2
      <4> QED BY <3>2, <4>1 DEF FirstTurn
    <3>3. CASE k # 0 /\ k # 1
      <4>1. k - 1 \in 0..n /\ k - 1 # 0 /\ submitted # <<>>
        BY <1>0, <3>3
      <4>2. e[k] = one /\ e[k - 1] = one
        BY <3>3, <4>1
      <4> HIDE DEF one, e
      <4> QED BY <1>4, <3>3, <4>1, <4>2 DEF SubmitTurn
    <3> QED BY <3>1, <3>2, <3>3
  <2> QED BY <2>1 DEF Turns
<1>6. Turns(upTo, st, submitted, n)
  BY <1>2, <1>5 DEF Turns
<1>7. CASE submitted = <<>>
  BY <1>1, <1>6, <1>7 DEF Turns, AppliedResult
<1>8. CASE submitted # <<>>
  <2>1. n # 0
    BY <1>8
  <2>2. one.st.pending # {}
    BY <1>4, <1>8
  <2> HIDE DEF n
  <2>3. upTo[n] = FirstTurn(st, submitted)
    BY <1>0, <1>6, <2>1, <2>2, TurnsStop
  <2> QED BY <1>1, <1>4, <1>8, <2>3 DEF AppliedResult
<1> QED BY <1>7, <1>8

---------------------------------------------------------------------------
(***************************************************************************)
(* The steps of a run                                                      *)
(***************************************************************************)

\* The others are idle.
Alone(procs, p) == \A q \in Process : q # p => procs[q].pc = "idle"

LEMMA ActiveIsAlone ==
    ASSUME NEW procs, NEW seen, NEW live, ProcessesOK(procs, seen, live),
           NEW p \in Process, procs[p].pc # "idle"
    PROVE  Alone(procs, p)
BY DEF ProcessesOK, Alone

\* What one process does while the others are idle concerns it alone, whatever
\* it writes to the database.
LEMMA StepOfOne ==
    ASSUME NEW procs, NEW seen, NEW live, ProcessesOK(procs, seen, live),
           NEW p \in Process, Alone(procs, p),
           NEW me, IsProc(me), NEW newSeen, NEW newLive, StageOK(me, newSeen, newLive)
    PROVE  ProcessesOK([procs EXCEPT ![p] = me], newSeen, newLive)
<1> DEFINE after == [procs EXCEPT ![p] = me]
<1>1. procs = [q \in Process |-> procs[q]]
  BY DEF ProcessesOK
<1>2. after = [q \in Process |-> after[q]] /\ after[p] = me
  BY <1>1
<1>3. \A q \in Process : q # p => after[q] = procs[q] /\ procs[q].pc = "idle"
  BY <1>1 DEF Alone
<1> HIDE DEF after
<1>4. ASSUME NEW q \in Process PROVE IsProc(after[q]) /\ StageOK(after[q], newSeen, newLive)
  <2>1. CASE q = p
    BY <1>2, <2>1
  <2>2. CASE q # p
    <3>1. after[q] = procs[q] /\ after[q].pc = "idle" /\ IsProc(after[q])
      BY <1>3, <2>2 DEF ProcessesOK
    <3> QED BY <3>1 DEF StageOK
  <2> QED BY <2>1, <2>2
<1>5. \A q, r \in Process : after[q].pc # "idle" /\ after[r].pc # "idle" => q = r
  BY <1>3
<1> QED BY <1>2, <1>4, <1>5 DEF ProcessesOK, after

\* A process that has ended.
LEMMA IdleOK ==
    ASSUME NEW seen, NEW live
    PROVE  IsProc(Idle) /\ StageOK(Idle, seen, live) /\ Idle.pc = "idle"
BY DEF Idle, IsProc, ProcField, StageOK

\* The fields of a process that goes on to another stage.
LEMMA GotoFields ==
    ASSUME NEW me, IsProc(me), NEW pc, NEW r, r = [me EXCEPT !.pc = pc]
    PROVE  /\ IsProc(r) /\ r.pc = pc /\ r.run = me.run /\ r.config = me.config
           /\ r.progress = me.progress /\ r.loaded = me.loaded /\ r.st = me.st
           /\ r.todo = me.todo /\ r.submitted = me.submitted /\ r.records = me.records
BY DEF IsProc, ProcField

\* A failed run knows only its configuration.
LEMMA FailedStage ==
    ASSUME NEW me, IsProc(me), me.config \in Config, NEW seen, NEW live,
           NEW pc \in {"failed", "mark_running", "refresh_last_seen", "mark_exited"}
    PROVE  IsProc([me EXCEPT !.pc = pc]) /\ StageOK([me EXCEPT !.pc = pc], seen, live)
<1> DEFINE r == [me EXCEPT !.pc = pc]
<1>1. IsProc(r) /\ r.pc = pc /\ r.config = me.config
  BY DEF IsProc, ProcField
<1> HIDE DEF r
<1>2. StageOK(r, seen, live)
  BY <1>1 DEF StageOK
<1> QED BY <1>1, <1>2 DEF r

\* The invariant after a step of a run, from what the run has become.
LEMMA OneSteps ==
    ASSUME StartupOK, NEW p \in Process, proc[p].pc # "idle", anchors' = anchors,
           NEW me, proc' = [proc EXCEPT ![p] = me], IsProc(me),
           StageOK(me, progress', LiveAttempts'), DurableOK(progress', attempts')
    PROVE  StartupOK'
<1>1. Alone(proc, p)
  BY ActiveIsAlone DEF StartupOK
<1>2. ProcessesOK(proc', progress', LiveAttempts')
  BY <1>1, StepOfOne DEF StartupOK
<1> QED BY <1>2 DEF StartupOK

\* What is known of the process that takes a step.
LEMMA Standing ==
    ASSUME StartupOK, NEW p \in Process
    PROVE  /\ IsProc(proc[p]) /\ StageOK(proc[p], progress, LiveAttempts)
           /\ proc = [q \in Process |-> proc[q]]
           /\ DurableOK(progress, attempts) /\ anchors = {}
BY DEF StartupOK, ProcessesOK

\* The durable position does not move while the row is not written.
LEMMA UnchangedIsKept ==
    ASSUME StartupOK, progress' = progress, LiveAttempts # {} => venue' = venue
    PROVE  StepOK
<1>1. ASSUME progress # None PROVE progress.seq >= progress.seq /\ progress.version >= progress.version
  BY <1>1 DEF StartupOK, DurableOK
<1> QED BY <1>1 DEF StepOK

\* A run is started: no other is under way.
LEMMA StartRunOK ==
    ASSUME StartupOK, NEW p \in Process, NEW config \in Config, StartRun(p, config)
    PROVE  (~overlapped' => StartupOK') /\ StepOK
<1>1. ~overlapped' => Alone(proc, p)
  BY DEF StartRun, Alone
<1>2. PICK r \in Run : proc' = [proc EXCEPT ![p] = [Idle EXCEPT !.pc = "load_progress", !.run = r,
                                                                !.config = config]]
  BY DEF StartRun
<1> DEFINE me == [Idle EXCEPT !.pc = "load_progress", !.run = r, !.config = config]
<1>3. IsProc(me) /\ me.pc = "load_progress" /\ me.config = config /\ me.submitted = <<>>
  BY DEF Idle, IsProc, ProcField
<1> HIDE DEF me
<1>4. StageOK(me, progress, LiveAttempts)
  BY <1>3 DEF StageOK
<1>5. ~overlapped' => ProcessesOK([proc EXCEPT ![p] = me], progress, LiveAttempts)
  BY <1>1, <1>3, <1>4, StepOfOne DEF StartupOK
<1>6. /\ anchors' = anchors /\ progress' = progress /\ attempts' = attempts /\ venue' = venue
  BY DEF StartRun, durableVars
<1>7. LiveAttempts' = LiveAttempts
  BY <1>6 DEF LiveAttempts
<1> QED BY <1>2, <1>5, <1>6, <1>7, UnchangedIsKept DEF StartupOK, me

\* The stages that read: none writes a row or calls the venue.
LEMMA QuietStep ==
    ASSUME StartupOK, NEW p \in Process, proc[p].pc # "idle",
           UNCHANGED <<progress, attempts, anchors, venue>>,
           NEW me, proc' = [proc EXCEPT ![p] = me], IsProc(me),
           StageOK(me, progress, LiveAttempts)
    PROVE  StartupOK' /\ StepOK
<1>1. LiveAttempts' = LiveAttempts
  BY DEF LiveAttempts
<1>2. DurableOK(progress', attempts')
  BY Standing
<1> QED BY <1>1, <1>2, OneSteps, UnchangedIsKept

LEMMA LoadProgressOK ==
    ASSUME StartupOK, NEW p \in Process, LoadProgress(p)
    PROVE  StartupOK' /\ StepOK
<1> DEFINE me == [proc[p] EXCEPT !.pc = "load_attempts", !.progress = progress]
<1>1. /\ IsProc(proc[p]) /\ StageOK(proc[p], progress, LiveAttempts)
      /\ proc = [q \in Process |-> proc[q]]
  BY Standing
<1>2. proc[p].pc = "load_progress" /\ UNCHANGED <<progress, attempts, anchors, venue>>
  BY DEF LoadProgress, durableVars
<1>3. proc' = [proc EXCEPT ![p] = me]
  BY <1>1 DEF LoadProgress
<1>4. /\ IsProc(me) /\ me.pc = "load_attempts" /\ me.progress = progress
      /\ me.config = proc[p].config
      /\ me.submitted = proc[p].submitted
  BY <1>1 DEF IsProc, ProcField
<1> HIDE DEF me
<1>5. StageOK(me, progress, LiveAttempts)
  BY <1>1, <1>2, <1>4 DEF StageOK
<1> QED BY <1>2, <1>3, <1>4, <1>5, QuietStep

LEMMA LoadAttemptsOK ==
    ASSUME StartupOK, NEW p \in Process, LoadAttempts(p)
    PROVE  StartupOK' /\ StepOK
<1> DEFINE me == [proc[p] EXCEPT !.pc = "load_records", !.loaded = AttemptsOf("Live", attempts)]
<1>1. /\ IsProc(proc[p]) /\ StageOK(proc[p], progress, LiveAttempts)
      /\ proc = [q \in Process |-> proc[q]]
  BY Standing
<1>2. proc[p].pc = "load_attempts" /\ UNCHANGED <<progress, attempts, anchors, venue>>
  BY DEF LoadAttempts, durableVars
<1>3. proc' = [proc EXCEPT ![p] = me]
  BY <1>1 DEF LoadAttempts
<1>4. /\ IsProc(me) /\ me.pc = "load_records" /\ me.progress = proc[p].progress
      /\ me.loaded = AttemptsOf("Live", attempts) /\ me.config = proc[p].config
      /\ me.submitted = proc[p].submitted
  BY <1>1 DEF IsProc, ProcField
<1> HIDE DEF me
<1>5. StageOK(me, progress, LiveAttempts)
  BY <1>1, <1>2, <1>4 DEF StageOK, LiveAttempts
<1> QED BY <1>2, <1>3, <1>4, <1>5, QuietStep

\* A run that goes on to fail, or to close its session.
LEMMA GotoEndOK ==
    ASSUME StartupOK, NEW p \in Process, proc[p].pc # "idle",
           NEW pc \in {"failed", "mark_running", "refresh_last_seen", "mark_exited"}, Goto(p, pc),
           UNCHANGED <<progress, attempts, anchors, venue>>
    PROVE  StartupOK' /\ StepOK
<1>1. /\ IsProc(proc[p]) /\ StageOK(proc[p], progress, LiveAttempts)
      /\ proc = [q \in Process |-> proc[q]]
  BY Standing
<1>2. proc[p].config \in Config
  BY <1>1 DEF StageOK
<1> DEFINE me == [proc[p] EXCEPT !.pc = pc]
<1>3. proc' = [proc EXCEPT ![p] = me]
  BY <1>1 DEF Goto
<1>4. IsProc(me) /\ StageOK(me, progress, LiveAttempts)
  BY <1>1, <1>2, FailedStage
<1> HIDE DEF me
<1> QED BY <1>3, <1>4, QuietStep

LEMMA LoadRecordsOK ==
    ASSUME StartupOK, NEW p \in Process, LoadRecords(p)
    PROVE  StartupOK' /\ StepOK
<1> DEFINE shadow == IF proc[p].config.smoke THEN AttemptsOf("Shadow", attempts) ELSE {}
           me == [proc[p] EXCEPT !.pc = "restore", !.loaded = proc[p].loaded \cup shadow]
<1>1. /\ IsProc(proc[p]) /\ StageOK(proc[p], progress, LiveAttempts)
      /\ proc = [q \in Process |-> proc[q]] /\ DurableOK(progress, attempts)
  BY Standing
<1>2. /\ proc[p].pc = "load_records" /\ UNCHANGED <<progress, attempts, anchors, venue>>
      /\ \/ Goto(p, "failed")
         \/ proc' = [proc EXCEPT ![p].pc = "restore", ![p].loaded = proc[p].loaded \cup shadow]
  BY DEF LoadRecords, durableVars
<1>3. CASE Goto(p, "failed")
  BY <1>2, <1>3, GotoEndOK
<1>4. CASE proc' = [proc EXCEPT ![p].pc = "restore", ![p].loaded = proc[p].loaded \cup shadow]
  <2>1. proc' = [proc EXCEPT ![p] = me]
    BY <1>1, <1>4
  <2>2. /\ IsProc(me) /\ me.pc = "restore" /\ me.progress = proc[p].progress
        /\ me.loaded = proc[p].loaded \cup shadow /\ me.config = proc[p].config
        /\ me.submitted = proc[p].submitted
    BY <1>1 DEF IsProc, ProcField
  <2>3. proc[p].loaded = LiveAttempts
    BY <1>1, <1>2 DEF StageOK
  <2>4. \A a \in shadow : a \in attempts /\ a.mode = "Shadow"
    BY DEF AttemptsOf
  <2> HIDE DEF me, shadow
  <2>5. AttemptsOf("Live", me.loaded) = LiveAttempts /\ \A a \in me.loaded : a.version = 0
    BY <1>1, <2>2, <2>3, <2>4 DEF AttemptsOf, LiveAttempts, DurableOK
  <2>6. StageOK(me, progress, LiveAttempts)
    BY <1>1, <1>2, <2>2, <2>5 DEF StageOK
  <2> QED BY <1>2, <2>1, <2>2, <2>6, QuietStep
<1> QED BY <1>2, <1>3, <1>4

\* What a run is once it has restored its store: it goes on to submit only if
\* no live attempt is durable.
LEMMA RestoreOK ==
    ASSUME StartupOK, NEW p \in Process, Restore(p)
    PROVE  StartupOK' /\ StepOK
<1> DEFINE st      == RestoredStore(proc[p].progress, anchors)
           kept    == Retained(st, proc[p].loaded)
           allowed == AllowSynthesis(st, kept) /\ LiveReadyCount(proc[p].config) > 0
           todo    == CASE ~allowed -> {}
                        [] allowed /\ proc[p].config.smoke -> EligibleShadowRecords(proc[p].config)
                        [] OTHER -> EligibleLiveRecords(proc[p].config)
           pc      == IF AttemptsOf("Shadow", proc[p].loaded) # {} /\ AttemptsOf("Shadow", kept) = {}
                      THEN "failed"
                      ELSE IF ~allowed THEN "persist_progress"
                      ELSE IF proc[p].config.smoke THEN "persist_shadow" ELSE "submit"
           me      == [proc[p] EXCEPT !.st = st, !.loaded = kept, !.todo = todo, !.pc = pc]
<1>1. /\ IsProc(proc[p]) /\ StageOK(proc[p], progress, LiveAttempts)
      /\ proc = [q \in Process |-> proc[q]] /\ DurableOK(progress, attempts) /\ anchors = {}
  BY Standing
<1>2. /\ proc[p].pc = "restore" /\ UNCHANGED <<progress, attempts, anchors, venue>>
      /\ proc' = [proc EXCEPT ![p].st = st, ![p].loaded = kept, ![p].todo = todo, ![p].pc = pc]
  BY DEF Restore, durableVars
<1>3. pc \in {"failed", "persist_progress", "persist_shadow", "submit"}
  OBVIOUS
<1>4. pc = "submit" => allowed
  OBVIOUS
<1>5. pc = "submit" => todo \subseteq DOMAIN proc[p].config.targets
  BY DEF EligibleShadowRecords, EligibleLiveRecords, EligibleUnder
<1>6. FreshStore(st) /\ StoreAhead(st, progress)
  <2>1. st = RestoredStore(progress, {})
    BY <1>1, <1>2 DEF StageOK
  <2>2. progress # None => progress.seq \in Nat /\ progress.version = 0
    BY <1>1 DEF DurableOK
  <2> QED BY <2>1, <2>2, RestoredIsFresh
<1>7. allowed => kept = {}
  BY DEF AllowSynthesis
<1>8. kept = proc[p].loaded
  <2>1. st.version = 0 /\ \A a \in proc[p].loaded : a.version = 0
    BY <1>1, <1>2, <1>6 DEF StoreAhead, StageOK
  <2> HIDE DEF st
  <2> QED BY <2>1 DEF Retained
<1>9. allowed => LiveAttempts = {}
  BY <1>1, <1>2, <1>7, <1>8 DEF StageOK, AttemptsOf
<1> HIDE DEF st, kept, allowed, todo, pc
<1>10. proc' = [proc EXCEPT ![p] = me]
  BY <1>1, <1>2
<1>11. /\ IsProc(me) /\ me.pc = pc /\ me.todo = todo /\ me.st = st
       /\ me.submitted = proc[p].submitted /\ me.config = proc[p].config
  BY <1>1 DEF IsProc, ProcField
<1> HIDE DEF me
<1>12. StageOK(me, progress, LiveAttempts)
  <2>1. proc[p].submitted = <<>> /\ proc[p].config \in Config
    BY <1>1, <1>2 DEF StageOK
  <2>2. me.submitted \in Seq(Family)
    BY <1>11, <2>1
  <2> QED BY <1>3, <1>4, <1>5, <1>6, <1>9, <1>11, <2>1, <2>2 DEF StageOK
<1> QED BY <1>2, <1>10, <1>11, <1>12, QuietStep

\* The position that comes next is one of the positions.
LEMMA MinOfNaturals ==
    ASSUME NEW S, S \subseteq Nat, S # {}
    PROVE  Min(S) \in S
BY LeastNat DEF Min

\* Orders go to the venue only while no live attempt is durable.
LEMMA SubmitAcceptedOK ==
    ASSUME StartupOK, NEW p \in Process, SubmitAccepted(p)
    PROVE  StartupOK' /\ StepOK
<1> DEFINE m  == NextFamily(proc[p])
           me == [proc[p] EXCEPT !.todo = proc[p].todo \ {Min(proc[p].todo)},
                                 !.submitted = Append(proc[p].submitted, m)]
<1>1. /\ IsProc(proc[p]) /\ StageOK(proc[p], progress, LiveAttempts)
      /\ proc = [q \in Process |-> proc[q]] /\ DurableOK(progress, attempts)
  BY Standing
<1>2. /\ proc[p].pc = "submit" /\ proc[p].todo # {} /\ UNCHANGED <<progress, attempts, anchors>>
      /\ proc' = [proc EXCEPT ![p].todo = proc[p].todo \ {Min(proc[p].todo)},
                              ![p].submitted = Append(proc[p].submitted, m)]
  BY DEF SubmitAccepted, durableVars
<1>3. m \in Family
  <2>1. proc[p].config \in Config /\ proc[p].todo \subseteq DOMAIN proc[p].config.targets
    BY <1>1, <1>2 DEF StageOK
  <2>2. proc[p].config.targets \in Seq(Family)
    BY <2>1, StartupAssumption
  <2>3. DOMAIN proc[p].config.targets \subseteq Nat
    BY <2>2
  <2>4. Min(proc[p].todo) \in proc[p].todo
    BY <1>2, <2>1, <2>3, MinOfNaturals
  <2>5. Min(proc[p].todo) \in DOMAIN proc[p].config.targets
    BY <2>1, <2>4
  <2> QED BY <2>2, <2>5 DEF NextFamily
<1> HIDE DEF m
<1>4. proc' = [proc EXCEPT ![p] = me]
  BY <1>1, <1>2
<1>5. /\ IsProc(me) /\ me.pc = "submit" /\ me.todo \subseteq proc[p].todo
      /\ me.submitted = Append(proc[p].submitted, m)
      /\ me.st = proc[p].st /\ me.config = proc[p].config
  BY <1>1, <1>2 DEF IsProc, ProcField
<1> HIDE DEF me
<1>6. LiveAttempts = {} /\ proc[p].submitted \in Seq(Family)
  BY <1>1, <1>2 DEF StageOK
<1>7. me.submitted \in Seq(Family)
  BY <1>3, <1>5, <1>6
<1>8. StageOK(me, progress, LiveAttempts)
  BY <1>1, <1>2, <1>5, <1>7 DEF StageOK
<1>9. LiveAttempts' = LiveAttempts
  BY <1>2 DEF LiveAttempts
<1> QED BY <1>1, <1>2, <1>4, <1>5, <1>6, <1>8, <1>9, OneSteps, UnchangedIsKept

LEMMA SubmitFailedOK ==
    ASSUME StartupOK, NEW p \in Process, NEW reached, SubmitFailed(p, reached)
    PROVE  StartupOK' /\ StepOK
<1> DEFINE me == [proc[p] EXCEPT !.pc = "failed"]
<1>1. /\ IsProc(proc[p]) /\ StageOK(proc[p], progress, LiveAttempts)
      /\ proc = [q \in Process |-> proc[q]] /\ DurableOK(progress, attempts)
  BY Standing
<1>2. /\ proc[p].pc = "submit" /\ UNCHANGED <<progress, attempts, anchors>>
      /\ Goto(p, "failed")
  BY DEF SubmitFailed, durableVars
<1>3. proc' = [proc EXCEPT ![p] = me]
  BY <1>1, <1>2 DEF Goto
<1>4. LiveAttempts = {} /\ proc[p].config \in Config
  BY <1>1, <1>2 DEF StageOK
<1>5. IsProc(me) /\ StageOK(me, progress, LiveAttempts)
  BY <1>1, <1>4, FailedStage
<1> HIDE DEF me
<1>6. LiveAttempts' = LiveAttempts
  BY <1>2 DEF LiveAttempts
<1> QED BY <1>1, <1>2, <1>3, <1>4, <1>5, <1>6, OneSteps, UnchangedIsKept

\* The facts are applied up to the first: at most one record is to be written.
LEMMA ApplySubmitFactsOK ==
    ASSUME StartupOK, NEW p \in Process, ApplySubmitFacts(p)
    PROVE  StartupOK' /\ StepOK
<1> DEFINE applied == AppliedSubmits(proc[p].st, proc[p].submitted)
           me      == [proc[p] EXCEPT !.st = applied.st, !.records = applied.records,
                                      !.pc = "persist_attempt"]
<1>1. /\ IsProc(proc[p]) /\ StageOK(proc[p], progress, LiveAttempts)
      /\ proc = [q \in Process |-> proc[q]] /\ DurableOK(progress, attempts)
  BY Standing
<1>2. /\ proc[p].pc = "submit" /\ UNCHANGED <<progress, attempts, anchors, venue>>
      /\ proc[p].st.last_consumed + 1 \in JournalSeq
      /\ proc' = [proc EXCEPT ![p].st = applied.st, ![p].records = applied.records,
                              ![p].pc = "persist_attempt"]
  BY DEF ApplySubmitFacts, durableVars
<1>3. /\ LiveAttempts = {} /\ proc[p].submitted \in Seq(Family) /\ FreshStore(proc[p].st)
      /\ StoreAhead(proc[p].st, progress) /\ proc[p].config \in Config
  BY <1>1, <1>2 DEF StageOK
<1>4. proc[p].st.version = 0 /\ proc[p].st.last_consumed \in Nat
  BY <1>3 DEF StoreAhead
<1>5. applied = AppliedResult(proc[p].st, proc[p].submitted)
  BY <1>2, <1>3, <1>4, AppliedSubmitsStop
<1> HIDE DEF applied
<1>6. /\ StoreAhead(applied.st, progress)
      /\ applied.records = <<>> \/ \E m \in Family : applied.records = <<m>>
  <2>1. CASE proc[p].submitted = <<>>
    BY <1>3, <1>5, <2>1 DEF AppliedResult
  <2>2. CASE proc[p].submitted # <<>>
    <3>1. proc[p].submitted[1] \in Family
      BY <1>3, <2>2
    <3> DEFINE f == SubmitFact(proc[p].submitted[1])
    <3>2. f \in Fact
      BY <3>1, StartupAssumption DEF SubmitFact
    <3>3. /\ applied.st = ApplyInputStore(proc[p].st, proc[p].st.last_consumed + 1, f)
          /\ applied.records = <<proc[p].submitted[1]>>
      BY <1>5, <2>2 DEF AppliedResult
    <3> HIDE DEF f
    <3>4. /\ applied.st.pending # {} /\ applied.st.version = 0
          /\ applied.st.last_consumed = proc[p].st.last_consumed + 1
      BY <1>2, <1>3, <1>4, <3>2, <3>3, SubmitOpensPending
    <3>5. progress # None => progress.seq \in Nat /\ proc[p].st.last_consumed >= progress.seq
      BY <1>1, <1>3 DEF StoreAhead, DurableOK
    <3>6. StoreAhead(applied.st, progress)
      BY <1>4, <3>4, <3>5 DEF StoreAhead
    <3> QED BY <3>1, <3>3, <3>6
  <2> QED BY <2>1, <2>2
<1>7. proc' = [proc EXCEPT ![p] = me]
  BY <1>1, <1>2
<1>8. /\ IsProc(me) /\ me.pc = "persist_attempt" /\ me.st = applied.st
      /\ me.records = applied.records /\ me.config = proc[p].config
  BY <1>1 DEF IsProc, ProcField
<1> HIDE DEF me
<1>9. StageOK(me, progress, LiveAttempts)
  BY <1>3, <1>6, <1>8 DEF StageOK
<1> QED BY <1>2, <1>7, <1>8, <1>9, QuietStep

\* The one live attempt is written.
LEMMA PersistAttemptOK ==
    ASSUME StartupOK, NEW p \in Process, PersistAttempt(p)
    PROVE  StartupOK' /\ StepOK
<1> DEFINE row == LiveAttempt(proc[p], Head(proc[p].records))
           me  == [proc[p] EXCEPT !.pc = "persist_submission"]
<1>1. /\ IsProc(proc[p]) /\ StageOK(proc[p], progress, LiveAttempts)
      /\ proc = [q \in Process |-> proc[q]] /\ DurableOK(progress, attempts)
  BY Standing
<1>2. /\ proc[p].pc = "persist_attempt" /\ proc[p].records # <<>>
      /\ UNCHANGED <<progress, anchors, venue>>
      /\ \/ Goto(p, "failed") /\ UNCHANGED attempts
         \/ Goto(p, "persist_submission") /\ attempts' = attempts \cup {row}
  BY DEF PersistAttempt
<1>3. CASE Goto(p, "failed") /\ UNCHANGED attempts
  BY <1>2, <1>3, GotoEndOK
<1>4. CASE Goto(p, "persist_submission") /\ attempts' = attempts \cup {row}
  <2>1. /\ LiveAttempts = {} /\ \E m \in Family : proc[p].records = <<m>>
        /\ StoreAhead(proc[p].st, progress) /\ proc[p].config \in Config
    BY <1>1, <1>2 DEF StageOK
  <2>2. row.version = 0 /\ row.mode = "Live"
    BY <2>1 DEF LiveAttempt, ExecutionAttempt, StoreAhead
  <2> HIDE DEF row
  <2>3. LiveAttempts' = {row}
    BY <1>4, <2>1, <2>2 DEF LiveAttempts, AttemptsOf
  <2>4. DurableOK(progress', attempts')
    BY <1>1, <1>2, <1>4, <2>2, <2>3 DEF DurableOK, LiveAttempts
  <2>5. proc' = [proc EXCEPT ![p] = me]
    BY <1>1, <1>4 DEF Goto
  <2>6. /\ IsProc(me) /\ me.pc = "persist_submission" /\ me.st = proc[p].st
        /\ me.records = proc[p].records /\ me.config = proc[p].config
    BY <1>1 DEF IsProc, ProcField
  <2> HIDE DEF me
  <2>7. StageOK(me, progress', LiveAttempts')
    BY <1>2, <2>1, <2>6 DEF StageOK
  <2>8. StartupOK'
    BY <1>2, <2>4, <2>5, <2>6, <2>7, OneSteps
  <2> QED BY <1>2, <2>1, <2>8, UnchangedIsKept
<1> QED BY <1>2, <1>3, <1>4

LEMMA PersistSubmissionOK ==
    ASSUME StartupOK, NEW p \in Process, PersistSubmission(p)
    PROVE  StartupOK' /\ StepOK
<1> DEFINE me == [proc[p] EXCEPT !.records = Tail(proc[p].records), !.pc = "persist_attempt"]
<1>1. /\ IsProc(proc[p]) /\ StageOK(proc[p], progress, LiveAttempts)
      /\ proc = [q \in Process |-> proc[q]]
  BY Standing
<1>2. /\ proc[p].pc = "persist_submission" /\ UNCHANGED <<progress, attempts, anchors, venue>>
      /\ proc' = [proc EXCEPT ![p].records = Tail(proc[p].records), ![p].pc = "persist_attempt"]
  BY DEF PersistSubmission
<1>3. /\ \E m \in Family : proc[p].records = <<m>>
      /\ StoreAhead(proc[p].st, progress) /\ proc[p].config \in Config
  BY <1>1, <1>2 DEF StageOK
<1>4. Tail(proc[p].records) = <<>>
  BY <1>3
<1>5. proc' = [proc EXCEPT ![p] = me]
  BY <1>1, <1>2
<1>6. /\ IsProc(me) /\ me.pc = "persist_attempt" /\ me.st = proc[p].st
      /\ me.records = Tail(proc[p].records) /\ me.config = proc[p].config
  BY <1>1 DEF IsProc, ProcField
<1> HIDE DEF me
<1>7. StageOK(me, progress, LiveAttempts)
  BY <1>3, <1>4, <1>6 DEF StageOK
<1> QED BY <1>2, <1>5, <1>6, <1>7, QuietStep

LEMMA RecordsPersistedOK ==
    ASSUME StartupOK, NEW p \in Process, RecordsPersisted(p)
    PROVE  StartupOK' /\ StepOK
<1> DEFINE me == [proc[p] EXCEPT !.pc = "persist_progress"]
<1>1. /\ IsProc(proc[p]) /\ StageOK(proc[p], progress, LiveAttempts)
      /\ proc = [q \in Process |-> proc[q]]
  BY Standing
<1>2. /\ proc[p].pc = "persist_attempt" /\ UNCHANGED <<progress, attempts, anchors, venue>>
      /\ Goto(p, "persist_progress")
  BY DEF RecordsPersisted, durableVars
<1>3. proc' = [proc EXCEPT ![p] = me]
  BY <1>1, <1>2 DEF Goto
<1>4. /\ IsProc(me) /\ me.pc = "persist_progress" /\ me.st = proc[p].st
      /\ me.config = proc[p].config
  BY <1>1 DEF IsProc, ProcField
<1> HIDE DEF me
<1>5. StageOK(me, progress, LiveAttempts)
  BY <1>1, <1>2, <1>4 DEF StageOK
<1> QED BY <1>2, <1>3, <1>4, <1>5, QuietStep

\* Shadow attempts are no live ones.
LEMMA PersistShadowBatchOK ==
    ASSUME StartupOK, NEW p \in Process, PersistShadowBatch(p)
    PROVE  StartupOK' /\ StepOK
<1> DEFINE rows == {ShadowAttempt(proc[p], proc[p].config.targets[i]) : i \in proc[p].todo}
           me   == [proc[p] EXCEPT !.pc = "persist_progress"]
<1>1. /\ IsProc(proc[p]) /\ StageOK(proc[p], progress, LiveAttempts)
      /\ proc = [q \in Process |-> proc[q]] /\ DurableOK(progress, attempts)
  BY Standing
<1>2. /\ proc[p].pc = "persist_shadow" /\ UNCHANGED <<progress, anchors, venue>>
      /\ Goto(p, "persist_progress") /\ attempts' = attempts \cup rows
  BY DEF PersistShadowBatch
<1>3. StoreAhead(proc[p].st, progress) /\ proc[p].config \in Config
  BY <1>1, <1>2 DEF StageOK
<1>4. \A a \in rows : a.mode = "Shadow" /\ a.version = 0
  BY <1>3 DEF ShadowAttempt, ExecutionAttempt, StoreAhead
<1> HIDE DEF rows
<1>5. LiveAttempts' = LiveAttempts
  BY <1>2, <1>4 DEF LiveAttempts, AttemptsOf
<1>6. DurableOK(progress', attempts')
  BY <1>1, <1>2, <1>4, <1>5 DEF DurableOK, LiveAttempts
<1>7. proc' = [proc EXCEPT ![p] = me]
  BY <1>1, <1>2 DEF Goto
<1>8. /\ IsProc(me) /\ me.pc = "persist_progress" /\ me.st = proc[p].st
      /\ me.config = proc[p].config
  BY <1>1 DEF IsProc, ProcField
<1> HIDE DEF me
<1>9. StageOK(me, progress', LiveAttempts')
  BY <1>2, <1>3, <1>8 DEF StageOK
<1>10. StartupOK'
  BY <1>2, <1>6, <1>7, <1>8, <1>9, OneSteps
<1> QED BY <1>2, <1>10, UnchangedIsKept

\* The position of a store that is not behind the durable one replaces it.
LEMMA PersistProgressOK ==
    ASSUME StartupOK, NEW p \in Process, PersistProgress(p)
    PROVE  StartupOK' /\ StepOK
<1> DEFINE st  == proc[p].st
           row == [seq |-> st.last_consumed, version |-> st.version,
                   revision |-> proc[p].config.revision, run |-> proc[p].run]
           me  == [proc[p] EXCEPT !.pc = "mark_running"]
<1>1. /\ IsProc(proc[p]) /\ StageOK(proc[p], progress, LiveAttempts)
      /\ proc = [q \in Process |-> proc[q]] /\ DurableOK(progress, attempts)
  BY Standing
<1>2. /\ proc[p].pc = "persist_progress" /\ UNCHANGED <<attempts, anchors, venue>>
      /\ Goto(p, "mark_running")
      /\ progress' = progress \/ progress' = row
  BY DEF PersistProgress
<1>3. StoreAhead(st, progress) /\ proc[p].config \in Config
  BY <1>1, <1>2 DEF StageOK
<1>4. LiveAttempts' = LiveAttempts
  BY <1>2 DEF LiveAttempts
<1>5. proc' = [proc EXCEPT ![p] = me]
  BY <1>1, <1>2 DEF Goto
<1>6. IsProc(me) /\ StageOK(me, progress', LiveAttempts')
  BY <1>1, <1>3, FailedStage
<1> HIDE DEF me
<1>7. CASE progress' = progress
  <2>1. StartupOK'
    BY <1>1, <1>2, <1>5, <1>6, <1>7, OneSteps
  <2> QED BY <1>2, <1>7, <2>1, UnchangedIsKept
<1>8. CASE progress' = row
  <2>1. row.seq = st.last_consumed /\ row.version = st.version
    OBVIOUS
  <2> HIDE DEF row
  <2>2. DurableOK(progress', attempts')
    BY <1>1, <1>2, <1>3, <1>8, <2>1 DEF DurableOK, StoreAhead
  <2>3. StartupOK'
    BY <1>1, <1>2, <1>5, <1>6, <2>2, OneSteps
  <2>4. progress # None => progress'.seq >= progress.seq /\ progress'.version >= progress.version
    BY <1>1, <1>3, <1>8, <2>1 DEF StoreAhead, DurableOK
  <2> QED BY <1>2, <2>3, <2>4 DEF StepOK
<1> QED BY <1>2, <1>7, <1>8

\* A process that ends, in whatever way, leaves the rows as they are.
LEMMA EndOK ==
    ASSUME StartupOK, NEW p \in Process, proc[p].pc # "idle", proc' = [proc EXCEPT ![p] = Idle],
           UNCHANGED <<progress, attempts, anchors, venue>>
    PROVE  StartupOK' /\ StepOK
<1>1. IsProc(Idle) /\ StageOK(Idle, progress, LiveAttempts)
  BY IdleOK
<1> QED BY <1>1, QuietStep

\* Runs that have overlapped once have overlapped.
LEMMA OverlapStays ==
    ASSUME overlapped, [StartupNext]_vars PROVE overlapped'
<1>1. ASSUME NEW p \in Process, ProcessStep(p) PROVE overlapped' = overlapped
  BY <1>1 DEF ProcessStep, LoadProgress, LoadAttempts, LoadRecords, Restore, SubmitAccepted,
              SubmitFailed, ApplySubmitFacts, PersistAttempt, PersistSubmission,
              RecordsPersisted, PersistShadowBatch, PersistProgress, MarkRunning,
              RefreshLastSeen, MarkExited, MarkFailed, PersistenceError, SessionUpdateError,
              historyVars
<1>2. ASSUME NEW p \in Process, NEW config \in Config, StartRun(p, config) PROVE overlapped'
  BY <1>2 DEF StartRun
<1>3. ASSUME NEW p \in Process, Crash(p) PROVE overlapped' = overlapped
  BY <1>3 DEF Crash
<1>4. CASE UNCHANGED vars
  BY <1>4 DEF vars, historyVars
<1> QED BY <1>1, <1>2, <1>3, <1>4 DEF StartupNext

\* Every step of a behaviour in which runs follow each other.
LEMMA StartupNextOK ==
    ASSUME StartupOK, [StartupNext]_vars
    PROVE  (~overlapped' => StartupOK') /\ StepOK
<1>1. CASE UNCHANGED vars
  <2>1. UNCHANGED <<progress, attempts, anchors, venue, proc>>
    BY <1>1 DEF vars, durableVars
  <2>2. LiveAttempts' = LiveAttempts
    BY <2>1 DEF LiveAttempts
  <2> QED BY <2>1, <2>2, UnchangedIsKept DEF StartupOK
<1>2. CASE StartupNext
  <2>1. PICK p \in Process : \/ \E config \in Config : StartRun(p, config)
                             \/ ProcessStep(p)
                             \/ Crash(p)
    BY <1>2 DEF StartupNext
  <2>2. CASE \E config \in Config : StartRun(p, config)
    BY <2>2, StartRunOK
  <2>3. CASE Crash(p)
    BY <2>3, EndOK DEF Crash, durableVars
  <2>4. CASE ProcessStep(p)
    <3>1. ASSUME NEW reached \in BOOLEAN, SubmitFailed(p, reached) PROVE StartupOK' /\ StepOK
      BY <3>1, SubmitFailedOK
    <3>2. CASE MarkRunning(p) \/ RefreshLastSeen(p)
      <4>1. /\ proc[p].pc # "idle"
            /\ \E pc \in {"refresh_last_seen", "mark_exited"} : Goto(p, pc)
            /\ UNCHANGED <<progress, attempts, anchors, venue>>
        BY <3>2 DEF MarkRunning, RefreshLastSeen, durableVars
      <4> QED BY <4>1, GotoEndOK
    <3>3. CASE MarkExited(p) \/ MarkFailed(p) \/ SessionUpdateError(p)
      <4>1. /\ proc[p].pc # "idle" /\ proc' = [proc EXCEPT ![p] = Idle]
            /\ UNCHANGED <<progress, attempts, anchors, venue>>
        BY <3>3 DEF MarkExited, MarkFailed, SessionUpdateError, durableVars
      <4> QED BY <4>1, EndOK
    <3>4. CASE PersistenceError(p)
      <4>1. /\ proc[p].pc # "idle" /\ Goto(p, "failed")
            /\ UNCHANGED <<progress, attempts, anchors, venue>>
        BY <3>4 DEF PersistenceError, durableVars
      <4> QED BY <4>1, GotoEndOK
    <3> QED BY <2>4, <3>1, <3>2, <3>3, <3>4, LoadProgressOK, LoadAttemptsOK, LoadRecordsOK,
               RestoreOK, SubmitAcceptedOK, ApplySubmitFactsOK, PersistAttemptOK,
               PersistSubmissionOK, RecordsPersistedOK, PersistShadowBatchOK, PersistProgressOK
            DEF ProcessStep
  <2> QED BY <2>1, <2>2, <2>3, <2>4
<1> QED BY <1>1, <1>2

---------------------------------------------------------------------------
(***************************************************************************)
(* The theorems                                                            *)
(***************************************************************************)

LEMMA StartupInitOK ==
    ASSUME StartupInit PROVE StartupInv
<1>1. anchors = {} /\ progress = None /\ attempts = {} /\ proc = [p \in Process |-> Idle]
  BY DEF StartupInit
<1>2. LiveAttempts = {} /\ DurableOK(progress, attempts)
  BY <1>1 DEF LiveAttempts, AttemptsOf, DurableOK
<1>3. ProcessesOK(proc, progress, LiveAttempts)
  BY <1>1, IdleOK DEF ProcessesOK
<1> QED BY <1>1, <1>2, <1>3 DEF StartupInv, StartupOK

LEMMA StartupInvariant == StartupSpec => []StartupInv
<1>1. ASSUME StartupInv, [StartupNext]_vars PROVE StartupInv'
  BY <1>1, StartupNextOK, OverlapStays DEF StartupInv
<1> QED BY <1>1, StartupInitOK, PTL DEF StartupSpec

\* Runs that follow each other record at most one live family, however many of
\* them crash or fail and whatever their configurations approve.
THEOREM OneLiveRecordAtMost == StartupSpec => []AtMostOneLiveRecord
<1>1. ASSUME StartupInv PROVE AtMostOneLiveRecord
  <2>1. SUFFICES ASSUME ~overlapped PROVE Cardinality(LiveAttempts) <= 1
    BY DEF AtMostOneLiveRecord
  <2>2. \A a, b \in LiveAttempts : a = b
    BY <1>1, <2>1 DEF StartupInv, StartupOK, DurableOK, LiveAttempts
  <2>3. CASE LiveAttempts = {}
    BY <2>3, FS_EmptySet
  <2>4. CASE LiveAttempts # {}
    <3>1. PICK a : LiveAttempts = {a}
      BY <2>2, <2>4
    <3> QED BY <3>1, FS_Singleton
  <2> QED BY <2>3, <2>4
<1> QED BY <1>1, StartupInvariant, PTL

\* Once a live attempt is durable, no step of a later run calls the venue.
THEOREM RecordedIsNeverResubmitted == StartupSpec => RecordedNeverResubmitted
<1>1. ASSUME StartupInv, [StartupNext]_vars
      PROVE  [~overlapped /\ LiveAttempts # {} => venue' = venue]_vars
  BY <1>1, StartupNextOK DEF StartupInv, StepOK
<1> QED BY <1>1, StartupInvariant, PTL DEF StartupSpec, RecordedNeverResubmitted

\* The durable journal position is never taken back by a run that follows
\* another.
THEOREM DurableProgressIsMonotone == StartupSpec => ProgressNeverRegresses
<1>1. ASSUME StartupInv, [StartupNext]_vars
      PROVE  [~overlapped /\ progress # None =>
                 progress'.seq >= progress.seq /\ progress'.version >= progress.version]_vars
  BY <1>1, StartupNextOK DEF StartupInv, StepOK
<1> QED BY <1>1, StartupInvariant, PTL DEF StartupSpec, ProgressNeverRegresses

=============================================================================
