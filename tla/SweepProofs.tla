---------------------------- MODULE SweepProofs ----------------------------
(***************************************************************************)
(* Proofs about Sweep: what a point says is what its shots came to, for    *)
(* every number of threads, shots, observables and models.                 *)
(***************************************************************************)
EXTENDS Sweep, FiniteSetTheorems, TLAPS

\* The shots that are in total_shots, and those whose error of i is counted:
\* the ones that no worker is still recording.
CountedShots ==
  {k \in DOMAIN judged : \A w \in Workers : shot[w].at = k => shot[w].counted}

CountedErrors(i) ==
  {k \in Missed(i) : \A w \in Workers : shot[w].at = k => i \notin shot[w].left}

\* The types, as far as the counting depends on them.
Typed ==
  /\ TypeOK
  /\ data_points \in Seq(Range(data_points))
  /\ \A k \in DOMAIN judged : judged[k].missed \subseteq Observables

\* Every claimed shot is in one job, or was sampled.
Claims ==
  /\ \A k \in 0..claimed - 1 : k \in DOMAIN judged \/ \E w \in Workers : k \in job[w]
  /\ \A w \in Workers : job[w] \subseteq 0..claimed - 1 /\ job[w] \cap DOMAIN judged = {}
  /\ DOMAIN judged \subseteq 0..claimed - 1
  /\ \A v, w \in Workers : v # w => job[v] \cap job[w] = {}

\* Workers record different shots, and of a shot what it missed.
Records ==
  /\ \A w \in Workers : Busy(w) =>
       shot[w].at \in DOMAIN judged /\ shot[w].left \subseteq judged[shot[w].at].missed
  /\ \A v, w \in Workers : v # w /\ Busy(v) /\ Busy(w) => shot[v].at # shot[w].at

\* The counters are the sizes of the sets.
Counts ==
  /\ total_shots = Cardinality(CountedShots)
  /\ \A i \in Observables : logical_errors[i] = Cardinality(CountedErrors(i))

\* Between two points the workers are through with the last one.
Joined ==
  phase \in {"start", "read"} =>
    /\ \A w \in Workers : job[w] = {} /\ ~ Busy(w)
    /\ phase = "start" => data_points = << >>
    /\ data_points # << >> =>
         /\ claimed = args.shots
         /\ data_points[Len(data_points)].logical_errors = Total(logical_errors)

CountingInv == Typed /\ Claims /\ Records /\ Counts /\ Joined

-----------------------------------------------------------------------------
\* A sequence stays one over its elements when it grows, and is not empty.
LEMMA AppendToSequence ==
  ASSUME NEW s, s \in Seq(Range(s)), NEW e
  PROVE  /\ Append(s, e) \in Seq(Range(Append(s, e)))
         /\ Append(s, e) # << >>
         /\ Append(s, e)[Len(Append(s, e))] = e
<1> DEFINE S == Range(s) \cup {e}
           t == Append(s, e)
<1>1. s \in Seq(S)
  <2>1. Len(s) \in Nat /\ s = [n \in 1 .. Len(s) |-> s[n]] /\ \A n \in 1 .. Len(s) : s[n] \in S
    OBVIOUS
  <2>2. QED
    BY <2>1
<1> HIDE DEF S
<1>2. t \in Seq(S) /\ Len(t) = Len(s) + 1 /\ t[Len(t)] = e
  BY <1>1 DEF S
<1>2a. Len(s) \in Nat
  BY <1>1
<1> HIDE DEF t
<1>3. Len(t) \in Nat /\ DOMAIN t = 1 .. Len(t) /\ t = [n \in 1 .. Len(t) |-> t[n]]
  BY <1>2
<1>4. \A n \in 1 .. Len(t) : t[n] \in Range(t)
  BY <1>3 DEF Range
<1>5. t \in Seq(Range(t))
  BY <1>3, <1>4
<1>6. t # << >>
  BY <1>2, <1>2a
<1>7. QED
  BY <1>2, <1>5, <1>6 DEF t

\* The sets of shots that are counted are finite.
LEMMA ShotsAreFinite ==
  ASSUME Typed
  PROVE  /\ IsFiniteSet(DOMAIN judged)
         /\ IsFiniteSet(CountedShots)
         /\ \A i : IsFiniteSet(CountedErrors(i))
<1>1. args.shots \in Nat
  BY SweepAssumption DEF Typed, TypeOK
<1>2. IsFiniteSet(0 .. args.shots - 1)
  BY <1>1, FS_Interval
<1>3. IsFiniteSet(DOMAIN judged)
  BY <1>2, FS_Subset DEF Typed, TypeOK
<1>4. CountedShots \subseteq DOMAIN judged /\ \A i : CountedErrors(i) \subseteq DOMAIN judged
  BY DEF CountedShots, CountedErrors, Missed
<1>5. QED
  BY <1>3, <1>4, FS_Subset

\* What the main thread does between two points touches nothing of the workers.
LEMMA Untouched ==
  ASSUME Claims, Records, Counts, UNCHANGED <<args, workers, counters, judged>>
  PROVE  /\ Claims' /\ Records' /\ Counts'
         /\ Observables' = Observables
         /\ \A w \in Workers : job'[w] = job[w] /\ Busy(w)' = Busy(w)
<1>1. Observables' = Observables
  BY DEF Observables
<1>2. \A w \in Workers : job'[w] = job[w] /\ Busy(w)' = Busy(w)
  BY DEF workers, Busy
<1>3. Claims'
  BY DEF Claims, workers
<1>4. Records'
  BY DEF Records, Busy, workers
<1>5. Counts'
  BY <1>1 DEF Counts, CountedShots, CountedErrors, Missed, counters, workers
<1>6. QED
  BY <1>1, <1>2, <1>3, <1>4, <1>5

-----------------------------------------------------------------------------
\* Nothing is counted at the start.
LEMMA InitCounting == Init => CountingInv
<1> SUFFICES ASSUME Init PROVE CountingInv
  OBVIOUS
<1>1. args.shots \in Nat
  BY SweepAssumption DEF Init
<1>2. DOMAIN judged = {} /\ \A w \in Workers : shot[w].counted /\ shot[w].left = {} /\ job[w] = {}
  BY DEF Init, Idle
<1>3. Idle \in [at : 0 .. args.shots, counted : BOOLEAN, left : SUBSET Observables]
  BY <1>1 DEF Idle
<1>4. Typed
  <2>1. TypeOK
    BY <1>1, <1>2, <1>3 DEF TypeOK, Init
  <2>2. QED
    BY <2>1, <1>2 DEF Typed, Init
<1>5. CountedShots = {} /\ \A i : CountedErrors(i) = {}
  BY <1>2 DEF CountedShots, CountedErrors, Missed
<1>6. Counts
  BY <1>5, FS_EmptySet DEF Counts, Init
<1>7. Claims
  BY <1>2 DEF Claims, Init
<1>8. Records /\ Joined
  BY <1>2 DEF Records, Joined, Busy, Init
<1>9. QED
  BY <1>4, <1>6, <1>7, <1>8 DEF CountingInv

\* Reading the next error model starts the counts again, or ends the sweep.
LEMMA ReadModelKeepsCounting == CountingInv /\ ReadModel => CountingInv'
<1> SUFFICES ASSUME CountingInv, ReadModel PROVE CountingInv'
  OBVIOUS
<1>1. args.shots \in Nat
  BY SweepAssumption DEF CountingInv, Typed, TypeOK
<1>2. Observables' = Observables
  BY DEF Observables, ReadModel
<1>3. \A w \in Workers : job[w] = {} /\ shot[w].counted /\ shot[w].left = {}
  BY DEF CountingInv, Joined, ReadModel, Busy
<1>4. DOMAIN judged' = {} /\ claimed' = 0 /\ job' = job /\ shot' = shot
  BY DEF ReadModel
<1>5. Typed'
  <2>1. TypeOK'
    BY <1>1, <1>2, <1>4 DEF TypeOK, ReadModel, CountingInv, Typed, Cleared, Observables
  <2>2. QED
    BY <2>1, <1>4 DEF Typed, CountingInv, ReadModel
<1>6. CountedShots' = {} /\ \A i : CountedErrors(i)' = {}
  BY <1>4 DEF CountedShots, CountedErrors, Missed
<1>7. Counts'
  BY <1>2, <1>6, FS_EmptySet DEF Counts, ReadModel, Cleared, Observables
<1>8. Claims' /\ Records'
  BY <1>3, <1>4 DEF Claims, Records, Busy
<1>9. Joined'
  BY DEF Joined, ReadModel
<1>10. QED
  BY <1>5, <1>7, <1>8, <1>9 DEF CountingInv

\* A report leaves the counts as they are.
LEMMA TakeReportKeepsCounting == CountingInv /\ TakeReport => CountingInv'
<1> SUFFICES ASSUME CountingInv, TakeReport PROVE CountingInv'
  OBVIOUS
<1>1. /\ Claims' /\ Records' /\ Counts'
      /\ Observables' = Observables
      /\ \A w \in Workers : job'[w] = job[w] /\ Busy(w)' = Busy(w)
  BY Untouched DEF CountingInv, TakeReport
<1> DEFINE point == DataPoint(Len(data_points) + 1, Report)
<1>2. point.logical_errors = Total(logical_errors)
  BY DEF DataPoint, Report
<1> HIDE DEF point
<1>3. data_points' = Append(data_points, point)
  BY DEF TakeReport, point
<1>4. /\ data_points' \in Seq(Range(data_points'))
      /\ data_points' # << >>
      /\ data_points'[Len(data_points')] = point
  BY <1>3, AppendToSequence DEF CountingInv, Typed
<1>5. Typed'
  <2>1. TypeOK'
    BY <1>1 DEF TypeOK, TakeReport, CountingInv, Typed, counters, workers
  <2>2. QED
    BY <2>1, <1>1, <1>4 DEF Typed, CountingInv, TakeReport
<1>6. Joined'
  BY <1>1, <1>2, <1>4 DEF Joined, TakeReport, Join, counters, workers
<1>7. QED
  BY <1>1, <1>5, <1>6 DEF CountingInv

\* The other steps of the main thread, and stuttering.
LEMMA MainKeepsCounting ==
  CountingInv /\ (Validate \/ ReadFails \/ WriteFile \/ WriteFails \/ UNCHANGED vars)
    => CountingInv'
<1> SUFFICES ASSUME CountingInv,
                    Validate \/ ReadFails \/ WriteFile \/ WriteFails \/ UNCHANGED vars
             PROVE CountingInv'
  OBVIOUS
<1>1. UNCHANGED <<args, data_points, workers, counters, judged>>
  BY DEF Validate, ReadFails, WriteFile, WriteFails, vars, main
<1>2. /\ Claims' /\ Records' /\ Counts'
      /\ Observables' = Observables
      /\ \A w \in Workers : job'[w] = job[w] /\ Busy(w)' = Busy(w)
  BY <1>1, Untouched DEF CountingInv
<1>3. phase' \in {"read", "failed", "done"} \/ phase' = phase
  BY DEF Validate, ReadFails, WriteFile, WriteFails, vars, main
<1>4. phase' = "read" => phase \in {"start", "read"}
  BY DEF Validate, ReadFails, WriteFile, WriteFails, vars, main
<1>5. Typed'
  <2>1. TypeOK'
    BY <1>1, <1>2, <1>3 DEF TypeOK, CountingInv, Typed, counters, workers
  <2>2. QED
    BY <2>1, <1>1, <1>2 DEF Typed, CountingInv
<1>6. Joined'
  <2>1. phase' = "start" => phase = "start"
    BY <1>3
  <2>2. phase = "start" => data_points = << >>
    BY DEF Joined, CountingInv
  <2>3. QED
    BY <1>1, <1>2, <1>4, <2>1, <2>2 DEF Joined, CountingInv, counters, workers
<1>7. QED
  BY <1>2, <1>5, <1>6 DEF CountingInv

-----------------------------------------------------------------------------
\* A worker that takes a job claims shots nobody had.
LEMMA StartJobKeepsCounting ==
  ASSUME CountingInv, NEW w \in Workers, StartJob(w)
  PROVE  CountingInv'
<1>1. args.shots \in Nat /\ claimed \in 0 .. args.shots
  BY SweepAssumption DEF CountingInv, Typed, TypeOK
<1>2. PICK next \in claimed + 1 .. args.shots :
        job' = [job EXCEPT ![w] = claimed .. next - 1] /\ claimed' = next
  BY DEF StartJob
<1>3. job' = [v \in Workers |-> IF v = w THEN claimed .. next - 1 ELSE job[v]]
  BY <1>2 DEF CountingInv, Typed, TypeOK
<1>4. Observables' = Observables
  BY DEF Observables, StartJob, main
<1>5. Typed'
  <2>1. claimed .. next - 1 \subseteq 0 .. args.shots - 1
    BY <1>1
  <2>2. TypeOK'
    BY <1>1, <1>2, <1>3, <1>4, <2>1 DEF TypeOK, CountingInv, Typed, StartJob, main, counters
  <2>3. QED
    BY <2>2, <1>4 DEF Typed, CountingInv, StartJob, main
<1>6. Claims'
  <2>1. job[w] = {}
    BY DEF StartJob
  <2>2. \A v \in Workers : job[v] \subseteq 0 .. claimed - 1 /\ DOMAIN judged \subseteq 0 .. claimed - 1
    BY DEF CountingInv, Claims
  <2>3. judged' = judged
    BY DEF StartJob
  <2>4. \A k \in 0 .. claimed' - 1 : k \in DOMAIN judged' \/ \E v \in Workers : k \in job'[v]
    <3> SUFFICES ASSUME NEW k \in 0 .. next - 1
                 PROVE  k \in DOMAIN judged \/ \E v \in Workers : k \in job'[v]
      BY <1>2, <2>3
    <3>1. CASE k >= claimed
      BY <3>1, <1>1, <1>3
    <3>2. CASE k < claimed
      <4>1. k \in DOMAIN judged \/ \E v \in Workers : k \in job[v]
        BY <3>2, <1>1 DEF CountingInv, Claims
      <4>2. QED
        BY <4>1, <1>3, <2>1
    <3>3. QED
      BY <3>1, <3>2, <1>1
  <2>5. \A v \in Workers : job'[v] \subseteq 0 .. claimed' - 1 /\ job'[v] \cap DOMAIN judged' = {}
    BY <1>1, <1>2, <1>3, <2>2, <2>3 DEF CountingInv, Claims
  <2>6. DOMAIN judged' \subseteq 0 .. claimed' - 1
    BY <1>1, <1>2, <2>2, <2>3
  <2>7. \A u, v \in Workers : u # v => job'[u] \cap job'[v] = {}
    BY <1>1, <1>3, <2>2 DEF CountingInv, Claims
  <2>8. QED
    BY <2>4, <2>5, <2>6, <2>7 DEF Claims
<1>7. Records'
  BY DEF Records, Busy, StartJob, CountingInv
<1>8. Counts'
  BY <1>4 DEF Counts, CountedShots, CountedErrors, Missed, StartJob, CountingInv, counters
<1>9. Joined'
  BY DEF Joined, StartJob, main
<1>10. QED
  BY <1>5, <1>6, <1>7, <1>8, <1>9 DEF CountingInv

\* A sampled shot moves from its job to the worker that has to record it.
LEMMA ShootKeepsCounting ==
  ASSUME CountingInv, NEW w \in Workers, Shoot(w)
  PROVE  CountingInv'
<1>1. PICK k \in job[w], missed \in SUBSET Observables :
        /\ shot' = [shot EXCEPT ![w] = [at |-> k, counted |-> FALSE, left |-> missed]]
        /\ job' = [job EXCEPT ![w] = @ \ {k}]
        /\ DOMAIN judged' = DOMAIN judged \cup {k}
        /\ judged'[k].missed = missed
        /\ \A n \in DOMAIN judged \ {k} : judged'[n] = judged[n]
  <2>1. PICK fired \in FiringSets(dem), k \in job[w] :
          LET sampled == Sample(dem, fired)
              decoded == Decode(scratch[w], sampled.detector_events)
              missed == SymDiff(decoded.flips, sampled.observable_flips) \cap Observables
          IN  /\ shot' = [shot EXCEPT ![w] = [at |-> k, counted |-> FALSE, left |-> missed]]
              /\ job' = [job EXCEPT ![w] = @ \ {k}]
              /\ judged' = [n \in DOMAIN judged \cup {k} |->
                              IF n = k THEN [fired |-> fired, missed |-> missed] ELSE judged[n]]
    BY DEF Shoot
  <2> DEFINE sampled == Sample(dem, fired)
             flips == Decode(scratch[w], sampled.detector_events).flips
             missed == SymDiff(flips, sampled.observable_flips) \cap Observables
  <2>2. missed \in SUBSET Observables
    OBVIOUS
  <2> HIDE DEF sampled, flips
  <2>3. shot' = [shot EXCEPT ![w] = [at |-> k, counted |-> FALSE, left |-> missed]]
    BY <2>1 DEF sampled, flips
  <2>4. judged' = [n \in DOMAIN judged \cup {k} |->
                     IF n = k THEN [fired |-> fired, missed |-> missed] ELSE judged[n]]
    BY <2>1 DEF sampled, flips
  <2>5. job' = [job EXCEPT ![w] = @ \ {k}]
    BY <2>1
  <2> HIDE DEF missed
  <2>6. QED
    BY <2>2, <2>3, <2>4, <2>5
<1>2. args.shots \in Nat /\ k \in 0 .. args.shots - 1 /\ k \notin DOMAIN judged
  BY SweepAssumption DEF CountingInv, Typed, TypeOK, Claims
<1>3. shot' = [v \in Workers |-> IF v = w THEN [at |-> k, counted |-> FALSE, left |-> missed]
                                 ELSE shot[v]]
  BY <1>1 DEF CountingInv, Typed, TypeOK
<1>4. job' = [v \in Workers |-> IF v = w THEN job[w] \ {k} ELSE job[v]]
  BY <1>1 DEF CountingInv, Typed, TypeOK
<1>5. Observables' = Observables /\ claimed' = claimed /\ UNCHANGED counters /\ UNCHANGED main
  BY DEF Observables, Shoot, main
<1>6. ~ Busy(w) /\ phase' = "shoot"
  BY <1>5 DEF Shoot, main
<1>7. Typed'
  <2>1. [at |-> k, counted |-> FALSE, left |-> missed]
          \in [at : 0 .. args.shots, counted : BOOLEAN, left : SUBSET Observables]
    BY <1>2
  <2>2. TypeOK'
    BY <1>1, <1>2, <1>3, <1>4, <1>5, <2>1 DEF TypeOK, CountingInv, Typed, main, counters
  <2>3. \A n \in DOMAIN judged' : judged'[n].missed \subseteq Observables
    BY <1>1 DEF CountingInv, Typed
  <2>4. QED
    BY <2>2, <2>3, <1>5 DEF Typed, CountingInv, main
<1>8. Claims'
  <2>1. \A v \in Workers : v # w => k \notin job[v]
    BY DEF CountingInv, Claims
  <2>2. \A n \in 0 .. claimed - 1 : n \in DOMAIN judged' \/ \E v \in Workers : n \in job'[v]
    BY <1>1, <1>4 DEF CountingInv, Claims
  <2>3. \A v \in Workers : job'[v] \subseteq 0 .. claimed - 1 /\ job'[v] \cap DOMAIN judged' = {}
    BY <1>1, <1>4, <2>1 DEF CountingInv, Claims
  <2>4. DOMAIN judged' \subseteq 0 .. claimed - 1
    BY <1>1 DEF CountingInv, Claims
  <2>5. \A u, v \in Workers : u # v => job'[u] \cap job'[v] = {}
    BY <1>4 DEF CountingInv, Claims
  <2>6. QED
    BY <1>5, <2>2, <2>3, <2>4, <2>5 DEF Claims
<1>9. Records'
  <2>1. \A v \in Workers : v # w => (Busy(v)' <=> Busy(v)) /\ shot'[v] = shot[v]
    BY <1>3 DEF Busy
  <2>2. shot'[w].at = k /\ shot'[w].left = judged'[k].missed
    BY <1>1, <1>3
  <2>3. \A v \in Workers : Busy(v) => shot[v].at \in DOMAIN judged
                                      /\ shot[v].left \subseteq judged[shot[v].at].missed
    BY DEF CountingInv, Records
  <2>4. \A v \in Workers : Busy(v)' =>
          shot'[v].at \in DOMAIN judged' /\ shot'[v].left \subseteq judged'[shot'[v].at].missed
    BY <1>1, <1>2, <2>1, <2>2, <2>3
  <2>5. \A u, v \in Workers : u # v /\ Busy(u)' /\ Busy(v)' => shot'[u].at # shot'[v].at
    BY <1>2, <2>1, <2>2, <2>3 DEF CountingInv, Records
  <2>6. QED
    BY <2>4, <2>5 DEF Records
<1>10. CountedShots' = CountedShots
  <2>1. \A v \in Workers : v # w => shot'[v] = shot[v]
    BY <1>3
  <2>2. shot'[w].at = k /\ shot'[w].counted = FALSE /\ shot[w].counted
    BY <1>3, <1>6 DEF Busy
  <2>3. QED
    BY <1>1, <1>2, <2>1, <2>2 DEF CountedShots
<1>11. \A i : CountedErrors(i)' = CountedErrors(i)
  <2>1. \A v \in Workers : v # w => shot'[v] = shot[v]
    BY <1>3
  <2>2. shot'[w].at = k /\ shot'[w].left = missed /\ shot[w].left = {}
    BY <1>3, <1>6 DEF Busy
  <2>3. QED
    BY <1>1, <1>2, <2>1, <2>2 DEF CountedErrors, Missed
<1>12. Counts'
  BY <1>5, <1>10, <1>11 DEF Counts, CountingInv, counters
<1>13. Joined'
  BY <1>6 DEF Joined
<1>14. QED
  BY <1>7, <1>8, <1>9, <1>12, <1>13 DEF CountingInv

\* The addition for a shot puts that shot into the set that is counted.
LEMMA RecordShotKeepsCounting ==
  ASSUME CountingInv, NEW w \in Workers, RecordShot(w)
  PROVE  CountingInv'
<1> DEFINE k == shot[w].at
           new == [at |-> k, counted |-> TRUE, left |-> shot[w].left]
<1>1. shot[w] \in [at : 0 .. args.shots, counted : BOOLEAN, left : SUBSET Observables]
  BY DEF CountingInv, Typed, TypeOK
<1>2. /\ ~ shot[w].counted
      /\ shot' = [shot EXCEPT ![w] = new]
      /\ total_shots' = total_shots + 1
      /\ UNCHANGED <<main, claimed, job, judged, logical_errors>>
  BY DEF RecordShot, CountShot
<1>3. shot' = [v \in Workers |-> IF v = w THEN new ELSE shot[v]]
  <2>1. shot \in [Workers -> [at : 0 .. args.shots, counted : BOOLEAN, left : SUBSET Observables]]
    BY DEF CountingInv, Typed, TypeOK
  <2> HIDE DEF new
  <2>2. QED
    BY <1>2, <2>1
<1>4. Observables' = Observables
  BY <1>2 DEF Observables, main
<1>5. Busy(w) /\ k \in DOMAIN judged
  BY <1>2 DEF Busy, CountingInv, Records
<1>6. Typed'
  <2>1. new \in [at : 0 .. args.shots, counted : BOOLEAN, left : SUBSET Observables]
    BY <1>1
  <2> HIDE DEF new
  <2>2. shot' \in [Workers -> [at : 0 .. args.shots, counted : BOOLEAN, left : SUBSET Observables]]
    BY <1>3, <2>1 DEF CountingInv, Typed, TypeOK
  <2>3. args' = args /\ total_shots' \in Nat
    BY <1>2 DEF CountingInv, Typed, TypeOK, main
  <2>4. TypeOK'
    BY <1>2, <1>4, <2>2, <2>3 DEF TypeOK, CountingInv, Typed, main
  <2>5. QED
    BY <2>4, <1>2, <1>4 DEF Typed, CountingInv, main
<1>7. Claims'
  BY <1>2 DEF Claims, CountingInv
<1>8. Records'
  BY <1>2, <1>3, <1>5 DEF Records, Busy, CountingInv
<1>9. CountedShots' = CountedShots \cup {k} /\ k \notin CountedShots
  <2>1. \A v \in Workers : v # w => shot'[v] = shot[v]
    BY <1>3
  <2>2. shot'[w].at = k /\ shot'[w].counted
    BY <1>3
  <2>3. \A v \in Workers : v # w /\ ~ shot[v].counted => shot[v].at # k
    BY <1>5 DEF CountingInv, Records, Busy
  <2>4. QED
    BY <1>2, <1>5, <2>1, <2>2, <2>3 DEF CountedShots
<1>10. \A i : CountedErrors(i)' = CountedErrors(i)
  <2>1. \A v \in Workers : shot'[v].at = shot[v].at /\ shot'[v].left = shot[v].left
    BY <1>3
  <2>2. QED
    BY <1>2, <2>1 DEF CountedErrors, Missed
<1>11. Counts'
  <2>1. Cardinality(CountedShots') = Cardinality(CountedShots) + 1
    BY <1>9, ShotsAreFinite, FS_AddElement DEF CountingInv
  <2>2. QED
    BY <1>2, <1>4, <1>10, <2>1 DEF Counts, CountingInv
<1>12. Joined'
  BY <1>2, <1>5 DEF Joined, RecordShot, main
<1>13. QED
  BY <1>6, <1>7, <1>8, <1>11, <1>12 DEF CountingInv

\* The addition for an error puts its shot into the set of that observable.
LEMMA RecordErrorKeepsCounting ==
  ASSUME CountingInv, NEW w \in Workers, RecordError(w)
  PROVE  CountingInv'
<1> DEFINE k == shot[w].at
<1>1. shot[w] \in [at : 0 .. args.shots, counted : BOOLEAN, left : SUBSET Observables]
  BY DEF CountingInv, Typed, TypeOK
<1>2. PICK i \in shot[w].left :
        /\ shot' = [shot EXCEPT ![w].left = @ \ {i}]
        /\ logical_errors' = [logical_errors EXCEPT ![i] = @ + 1]
        /\ UNCHANGED <<main, claimed, job, judged, total_shots>>
  BY DEF RecordError, CountError
<1> DEFINE new == [at |-> k, counted |-> shot[w].counted, left |-> shot[w].left \ {i}]
<1>3. shot' = [v \in Workers |-> IF v = w THEN new ELSE shot[v]]
  <2>1. [shot[w] EXCEPT !.left = @ \ {i}] = new
    BY <1>1
  <2>2. shot \in [Workers -> [at : 0 .. args.shots, counted : BOOLEAN, left : SUBSET Observables]]
    BY DEF CountingInv, Typed, TypeOK
  <2> HIDE DEF new
  <2>3. QED
    BY <1>2, <2>1, <2>2
<1>4. Observables' = Observables
  BY <1>2 DEF Observables, main
<1>5. Busy(w) /\ k \in DOMAIN judged /\ i \in judged[k].missed /\ i \in Observables
  BY <1>1, <1>2 DEF Busy, CountingInv, Records
<1>6. logical_errors' = [j \in Observables |-> IF j = i THEN logical_errors[i] + 1
                                               ELSE logical_errors[j]]
  BY <1>2, <1>5 DEF CountingInv, Typed, TypeOK
<1>7. Typed'
  <2>1. new \in [at : 0 .. args.shots, counted : BOOLEAN, left : SUBSET Observables]
    BY <1>1
  <2> HIDE DEF new
  <2>2. TypeOK'
    BY <1>2, <1>3, <1>4, <1>5, <1>6, <2>1 DEF TypeOK, CountingInv, Typed, main
  <2>3. QED
    BY <2>2, <1>2, <1>4 DEF Typed, CountingInv, main
<1>8. Claims'
  BY <1>2 DEF Claims, CountingInv
<1>9. Records'
  BY <1>2, <1>3, <1>5 DEF Records, Busy, CountingInv
<1>10. CountedShots' = CountedShots
  <2>1. \A v \in Workers : shot'[v].at = shot[v].at /\ shot'[v].counted = shot[v].counted
    BY <1>3
  <2>2. QED
    BY <1>2, <2>1 DEF CountedShots
<1>11. CountedErrors(i)' = CountedErrors(i) \cup {k} /\ k \notin CountedErrors(i)
  <2>1. \A v \in Workers : v # w => shot'[v] = shot[v]
    BY <1>3
  <2>2. shot'[w].at = k /\ i \notin shot'[w].left
    BY <1>3
  <2>3. \A v \in Workers : v # w /\ i \in shot[v].left => shot[v].at # k
    BY <1>5 DEF CountingInv, Records, Busy
  <2>4. QED
    BY <1>2, <1>5, <2>1, <2>2, <2>3 DEF CountedErrors, Missed
<1>12. \A j : j # i => CountedErrors(j)' = CountedErrors(j)
  <2>1. \A j, v : j # i /\ v \in Workers =>
          shot'[v].at = shot[v].at /\ (j \in shot'[v].left <=> j \in shot[v].left)
    BY <1>3
  <2>2. QED
    BY <1>2, <2>1 DEF CountedErrors, Missed
<1>13. Counts'
  <2>1. Cardinality(CountedErrors(i)') = Cardinality(CountedErrors(i)) + 1
    BY <1>11, ShotsAreFinite, FS_AddElement DEF CountingInv
  <2>2. \A j \in Observables : logical_errors'[j] = Cardinality(CountedErrors(j)')
    BY <1>5, <1>6, <1>12, <2>1 DEF Counts, CountingInv
  <2>3. QED
    BY <1>2, <1>4, <1>10, <2>2 DEF Counts, CountingInv
<1>14. Joined'
  BY <1>2, <1>5 DEF Joined, RecordError, main
<1>15. QED
  BY <1>7, <1>8, <1>9, <1>13, <1>14 DEF CountingInv

-----------------------------------------------------------------------------
\* What a point says follows when every worker is through.
LEMMA CountingIsExact == CountingInv => PointIsExact
<1> SUFFICES ASSUME CountingInv, phase = "read", data_points # << >>
             PROVE  /\ DOMAIN judged = 0 .. args.shots - 1
                    /\ total_shots = args.shots
                    /\ data_points[Len(data_points)].logical_errors
                         = Total([i \in Observables |-> Cardinality(Missed(i))])
  BY DEF PointIsExact
<1>1. args.shots \in Nat
  BY SweepAssumption DEF CountingInv, Typed, TypeOK
<1>2. /\ claimed = args.shots
      /\ \A w \in Workers : job[w] = {} /\ shot[w].counted /\ shot[w].left = {}
      /\ data_points[Len(data_points)].logical_errors = Total(logical_errors)
  BY DEF CountingInv, Joined, Busy
<1>3. DOMAIN judged = 0 .. args.shots - 1
  BY <1>2 DEF CountingInv, Claims
<1>4. CountedShots = DOMAIN judged /\ \A i : CountedErrors(i) = Missed(i)
  BY <1>2 DEF CountedShots, CountedErrors
<1>5. total_shots = args.shots
  <2>1. Cardinality(0 .. args.shots - 1) = args.shots
    BY <1>1, FS_Interval
  <2>2. QED
    BY <1>3, <1>4, <2>1 DEF CountingInv, Counts
<1>6. logical_errors = [i \in Observables |-> Cardinality(Missed(i))]
  BY <1>4 DEF CountingInv, Counts, Typed, TypeOK
<1>7. QED
  BY <1>2, <1>3, <1>5, <1>6

\* The invariant holds in every reachable state.
LEMMA CountingIsInductive == Spec => []CountingInv
<1>1. Init => CountingInv
  BY InitCounting
<1>2. CountingInv /\ [Next]_vars => CountingInv'
  <2> SUFFICES ASSUME CountingInv, [Next]_vars PROVE CountingInv'
    OBVIOUS
  <2>1. CASE ReadModel
    BY <2>1, ReadModelKeepsCounting
  <2>2. CASE TakeReport
    BY <2>2, TakeReportKeepsCounting
  <2>3. CASE Validate \/ ReadFails \/ WriteFile \/ WriteFails \/ UNCHANGED vars
    BY <2>3, MainKeepsCounting
  <2>4. ASSUME NEW w \in Workers, Worker(w) PROVE CountingInv'
    <3>1. CASE StartJob(w)
      BY <3>1, StartJobKeepsCounting
    <3>2. CASE Shoot(w)
      BY <3>2, ShootKeepsCounting
    <3>3. CASE RecordShot(w)
      BY <3>3, RecordShotKeepsCounting
    <3>4. CASE RecordError(w)
      BY <3>4, RecordErrorKeepsCounting
    <3>5. QED
      BY <2>4, <3>1, <3>2, <3>3, <3>4 DEF Worker
  <2>5. QED
    BY <2>1, <2>2, <2>3, <2>4 DEF Next, MainThread, Ended
<1>3. QED
  BY <1>1, <1>2, PTL DEF Spec

\* Whatever the sweep does, what it keeps has its type, and jobs and shots stay
\* in the range.
THEOREM TypeCorrect == Spec => []TypeOK
<1>1. CountingInv => TypeOK
  BY DEF CountingInv, Typed
<1>2. QED
  BY <1>1, CountingIsInductive, PTL

\* However the threads share the shots and interleave their counting, a point
\* says how many of its shots missed each observable.
THEOREM PointsCorrect == Spec => []PointIsExact
BY CountingIsExact, CountingIsInductive, PTL

-----------------------------------------------------------------------------
Good(n) == args.dems[n] # Unreadable /\ Parse(args.dems[n]).ok

\* The points so far are those of the first models, all of them good; in the
\* shots of the next one, it is good too.
OutputInv ==
  /\ args \in Arguments
  /\ data_points \in Seq(Range(data_points))
  /\ Len(data_points) <= Points
  /\ phase = "shoot" => Len(data_points) < Points /\ Good(Len(data_points) + 1)
  /\ \A n \in 1 .. Len(data_points) :
       Good(n) /\ (args.distances # << >> => data_points[n].distance = args.distances[n])
  /\ file # << >> => Len(data_points) = Points
  /\ phase = "done" => file = data_points /\ Len(data_points) = Points

\* A report adds the point of the model it is about.
LEMMA TakeReportKeepsOutput == OutputInv /\ TakeReport => OutputInv'
<1> SUFFICES ASSUME OutputInv, TakeReport PROVE OutputInv'
  OBVIOUS
<1> DEFINE next == Len(data_points) + 1
           point == DataPoint(next, Report)
<1>1. args.distances # << >> => point.distance = args.distances[next]
  BY DEF DataPoint
<1> HIDE DEF point
<1>2. data_points' = Append(data_points, point) /\ UNCHANGED <<args, file>> /\ phase' = "read"
  BY DEF TakeReport, point
<1>3. data_points' \in Seq(Range(data_points'))
  BY <1>2, AppendToSequence DEF OutputInv
<1>4. Len(data_points) \in Nat /\ Points \in Nat
  BY SweepAssumption DEF OutputInv, Points
<1>5. /\ Len(data_points') = next
      /\ data_points'[next] = point
      /\ \A n \in 1 .. Len(data_points) : data_points'[n] = data_points[n]
  BY <1>2 DEF OutputInv
<1>6. phase = "shoot" /\ Len(data_points) < Points /\ Good(next)
  BY DEF TakeReport, OutputInv
<1>7. file = << >>
  BY <1>4, <1>6 DEF OutputInv
<1>8. Points' = Points /\ \A n : Good(n)' = Good(n)
  BY <1>2 DEF Points, Good
<1>9. \A n \in 1 .. Len(data_points') :
        Good(n) /\ (args.distances # << >> => data_points'[n].distance = args.distances[n])
  BY <1>1, <1>4, <1>5, <1>6 DEF OutputInv
<1>10. QED
  BY <1>2, <1>3, <1>4, <1>5, <1>6, <1>7, <1>8, <1>9 DEF OutputInv

\* Everything else keeps the points, or writes them when there are all.
LEMMA OthersKeepOutput ==
  OutputInv /\ [Next]_vars /\ ~ TakeReport => OutputInv'
<1> SUFFICES ASSUME OutputInv, [Next]_vars, ~ TakeReport PROVE OutputInv'
  OBVIOUS
<1>1. UNCHANGED <<args, data_points>>
  BY DEF Next, MainThread, Ended, Worker, Validate, ReadModel, ReadFails, WriteFile, WriteFails,
         StartJob, Shoot, RecordShot, RecordError, main, vars
<1>2. Points' = Points /\ \A n : Good(n)' = Good(n)
  BY <1>1 DEF Points, Good
<1>3. \/ phase' # "shoot" \/ phase' = phase
      \/ Len(data_points) < Points /\ Good(Len(data_points) + 1)
  BY DEF Next, MainThread, Ended, Worker, Validate, ReadModel, ReadFails, WriteFile, WriteFails,
         StartJob, Shoot, RecordShot, RecordError, main, vars, Good, NextText
<1>4. file' = file \/ Len(data_points) = Points
  BY DEF Next, MainThread, Ended, Worker, Validate, ReadModel, ReadFails, WriteFile, WriteFails,
         StartJob, Shoot, RecordShot, RecordError, main, vars
<1>5. phase' = "done" => \/ phase' = phase /\ file' = file
                         \/ file' = data_points /\ Len(data_points) = Points
  BY DEF Next, MainThread, Ended, Worker, Validate, ReadModel, ReadFails, WriteFile, WriteFails,
         StartJob, Shoot, RecordShot, RecordError, main, vars
<1>6. QED
  BY <1>1, <1>2, <1>3, <1>4, <1>5 DEF OutputInv

\* A file that is written holds a point for every model, in their order, and a
\* sweep that cannot read one of them writes nothing.
THEOREM OutputCorrect == Spec => []OutputIsComplete
<1>1. Init => OutputInv
  <2> SUFFICES ASSUME Init PROVE OutputInv
    OBVIOUS
  <2>1. Points \in Nat
    BY SweepAssumption DEF Init, Points
  <2>2. QED
    BY <2>1 DEF Init, OutputInv
<1>2. OutputInv /\ [Next]_vars => OutputInv'
  BY TakeReportKeepsOutput, OthersKeepOutput
<1>3. OutputInv => OutputIsComplete
  BY DEF OutputInv, OutputIsComplete, Good
<1>4. QED
  BY <1>1, <1>2, <1>3, PTL DEF Spec
=============================================================================
