--------------------------- MODULE Offline_proofs ---------------------------
(***************************************************************************)
(* What holds of the work done before anything is traded.  Of a sweep, for *)
(* every list of specs, number of workers and schedule of their deaths:    *)
(* types, that only a death or a spec without a key ends it in an          *)
(* exception, that its report is the one promised, names files that are    *)
(* whole and has the best it says.  Of the store as research reads it, for *)
(* every order its bars come in: that a schedule of budgets never looks    *)
(* ahead and keeps to its limits, and that windows of days are whole.  Of  *)
(* a result replayed, for every result: that it is the exported log.       *)
(***************************************************************************)
EXTENDS Sweep, Research, LiveBridge, FiniteSetTheorems, SequenceTheorems,
        WellFoundedInduction, NaturalsInduction, TLAPS

-----------------------------------------------------------------------------
(* The inductive invariant *)

\* Why a sweep may end in an exception.
Cause == deaths > 0 \/ \E i \in DOMAIN specs : ~ HasKey(specs[i])

\* A future that raised did so for one of the causes, and so does the caller.
RaisesHaveACause ==
  /\ \A i \in DOMAIN futures : futures[i] = Raised => Cause
  /\ phase \in {"closing", "raised"} => Cause

\* A worker is at a running future of a spec with a key, and no other worker is.
WorkersAreAtTheirs ==
  /\ \A w \in Workers :
       workers[w] # Idle => futures[workers[w].task] = Running /\ HasKey(SpecOf(w))
  /\ \A v, w \in Workers :
       workers[v] # Idle /\ workers[w] # Idle /\ workers[v].task = workers[w].task => v = w
  /\ \A w \in Workers : workers[w].step \in {"open", "close"} => Builds(SpecOf(w))

\* A future is done with an outcome of its own spec, which has a key and can be built if
\* the run succeeded.
FuturesAreOwn ==
  \A i \in DOMAIN futures :
    futures[i] \in {Queued, Running, Raised}
    \/ /\ futures[i] \in Finished(specs[i]) /\ HasKey(specs[i])
       /\ futures[i] # Failure(specs[i]) => Builds(specs[i])

\* The caller has each result once, and has results only.
CollectedAreDone ==
  /\ \A j, k \in DOMAIN collected : collected[j] = collected[k] => j = k
  /\ \A k \in DOMAIN collected : futures[collected[k]] \notin {Queued, Running, Raised}
  /\ phase = "returned" => AllIn

DataInv == RaisesHaveACause /\ WorkersAreAtTheirs /\ FuturesAreOwn /\ CollectedAreDone
IInv == TypeOK /\ DataInv

-----------------------------------------------------------------------------
(* Futures *)

FutureStates == {Queued, Running, Raised} \cup UNION {Finished(spec) : spec \in ToSet(specs)}

\* The states of a future are told apart.
LEMMA FutureStatesDiffer ==
  /\ Queued # Running /\ Queued # Raised /\ Running # Raised
  /\ \A spec : Finished(spec) \cap {Queued, Running, Raised} = {}
BY DEF Queued, Running, Raised, Finished, Failure, Done

\* What a run leaves is one of the outcomes of its spec.
LEMMA FinishedHas ==
  ASSUME NEW spec
  PROVE  /\ Failure(spec) \in Finished(spec)
         /\ Done(Success(spec, NoArtifact)) \in Finished(spec)
         /\ Done(Success(spec, ArtifactOf(spec))) \in Finished(spec)
BY Zenon DEF Finished

\* The list of specs, and the spec of each future.
LEMMA SpecsType ==
  ASSUME TypeOK
  PROVE  /\ specs \in Seq(ToSet(specs)) /\ Len(specs) \in Nat /\ DOMAIN specs = 1 .. Len(specs)
         /\ Len(futures) \in Nat /\ DOMAIN futures = 1 .. Len(futures)
         /\ futures \in Seq(FutureStates)
         /\ DOMAIN futures \subseteq DOMAIN specs
         /\ \A i \in DOMAIN specs : specs[i] \in ToSet(specs)
<1>1. specs \in Seq(ToSet(specs))
  BY SweepAssumption DEF TypeOK
<1>2. futures \in Seq(FutureStates) /\ Len(futures) <= Len(specs)
  BY DEF TypeOK, FutureStates
<1>3. \A i \in DOMAIN specs : specs[i] \in ToSet(specs)
  BY DEF ToSet
<1>4. Len(specs) \in Nat /\ DOMAIN specs = 1 .. Len(specs)
  BY <1>1
<1>5. Len(futures) \in Nat /\ DOMAIN futures = 1 .. Len(futures)
  BY <1>2
<1>6. DOMAIN futures \subseteq DOMAIN specs
  BY <1>2, <1>4, <1>5
<1> QED
  BY <1>1, <1>2, <1>3, <1>4, <1>5, <1>6

\* Setting one future keeps the list a list of futures.
LEMMA SetOne ==
  ASSUME TypeOK, NEW i \in DOMAIN futures, NEW f \in FutureStates, futures' = [futures EXCEPT ![i] = f]
  PROVE  /\ futures' \in Seq(FutureStates) /\ Len(futures') = Len(futures) /\ DOMAIN futures' = DOMAIN futures
         /\ \A j \in DOMAIN futures : futures'[j] = IF j = i THEN f ELSE futures[j]
<1>1. futures \in Seq(FutureStates)
  BY SpecsType
<1> HIDE DEF FutureStates
<1> QED
  BY <1>1

\* An outcome of one of the specs is a state of a future.
LEMMA FinishedIsState ==
  ASSUME TypeOK, NEW i \in DOMAIN specs
  PROVE  Finished(specs[i]) \subseteq FutureStates
<1>1. specs[i] \in ToSet(specs)
  BY SpecsType
<1> QED
  BY <1>1, Zenon DEF FutureStates

\* A worker that is not idle is at a future.
LEMMA AtTask ==
  ASSUME TypeOK, NEW w \in Workers, workers[w] # Idle
  PROVE  /\ workers[w] \in [step : {"engine", "open", "close"}, task : DOMAIN futures]
         /\ workers[w].task \in DOMAIN futures /\ workers[w].task \in DOMAIN specs
BY SpecsType DEF TypeOK

LEMMA StepNotIdle ==
  ASSUME NEW w, workers[w].step \in {"engine", "open", "close"}
  PROVE  workers[w] # Idle
BY DEF Idle

\* A run that ends leaves its future done and its worker idle.
LEMMA AfterFinish ==
  ASSUME TypeOK, NEW w \in Workers, workers[w] # Idle,
         NEW f, f \in Finished(SpecOf(w)) \cup {Queued, Raised},
         futures' = [futures EXCEPT ![workers[w].task] = f],
         workers' = [workers EXCEPT ![w] = Idle]
  PROVE  /\ futures' \in Seq(FutureStates) /\ Len(futures') = Len(futures) /\ DOMAIN futures' = DOMAIN futures
         /\ \A j \in DOMAIN futures : futures'[j] = IF j = workers[w].task THEN f ELSE futures[j]
         /\ \A v \in Workers : workers'[v] = IF v = w THEN Idle ELSE workers[v]
         /\ workers' \in [Workers -> {Idle} \cup [step : {"engine", "open", "close"}, task : DOMAIN futures]]
<1>1. workers[w].task \in DOMAIN futures /\ workers[w].task \in DOMAIN specs
  BY AtTask
<1>2. f \in FutureStates
  <2>1. Finished(SpecOf(w)) \subseteq FutureStates
    BY <1>1, FinishedIsState DEF SpecOf
  <2> QED
    BY <2>1 DEF FutureStates
<1>3. workers \in [Workers -> {Idle} \cup [step : {"engine", "open", "close"}, task : DOMAIN futures]]
  BY DEF TypeOK
<1>4. /\ \A v \in Workers : workers'[v] = IF v = w THEN Idle ELSE workers[v]
      /\ workers' \in [Workers -> {Idle} \cup [step : {"engine", "open", "close"}, task : DOMAIN futures]]
  BY <1>3
<1> QED
  BY <1>1, <1>2, <1>4, SetOne, Zenon

\* What the files hold stays a torn frame or the frame of one of the specs.
LEMMA AfterPut ==
  ASSUME TypeOK, NEW path, NEW content, content \in {Torn} \cup {Key(spec) : spec \in ToSet(specs)},
         Put(path, content)
  PROVE  \A p \in DOMAIN files' : files'[p] \in {Torn} \cup {Key(spec) : spec \in ToSet(specs)}
<1>1. files' = [p \in DOMAIN files \cup {path} |-> IF p = path THEN content ELSE files[p]]
  BY DEF Put
<1> HIDE DEF Put
<1>2. \A p \in DOMAIN files : files[p] \in {Torn} \cup {Key(spec) : spec \in ToSet(specs)}
  BY DEF TypeOK
<1> DEFINE Contents == {Torn} \cup {Key(spec) : spec \in ToSet(specs)}
<1> HIDE DEF Contents
<1>3. content \in Contents /\ \A p \in DOMAIN files : files[p] \in Contents
  BY <1>2 DEF Contents
<1>4. \A p \in DOMAIN files' : files'[p] \in Contents
  BY <1>1, <1>3
<1> QED
  BY <1>4 DEF Contents

\* What a step of execute_spec does to futures, workers and files.
LEMMA WorkSteps ==
  ASSUME TypeOK, NEW w \in Workers, Works(w)
  PROVE  /\ UNCHANGED <<runner, specs, artifacts, phase, collected, deaths>>
         /\ \A p \in DOMAIN files' : files'[p] \in {Torn} \cup {Key(spec) : spec \in ToSet(specs)}
         /\ \/ \E i \in DOMAIN futures :
                 /\ workers[w] = Idle /\ futures[i] = Queued /\ HasKey(specs[i])
                 /\ futures' = [futures EXCEPT ![i] = Running]
                 /\ workers' = [workers EXCEPT ![w] = [step |-> "engine", task |-> i]]
            \/ \E i \in DOMAIN futures :
                 /\ futures[i] = Queued /\ ~ HasKey(specs[i])
                 /\ futures' = [futures EXCEPT ![i] = Raised] /\ UNCHANGED workers
            \/ /\ workers[w] # Idle /\ (Builds(SpecOf(w)) \/ workers[w].step = "open") /\ UNCHANGED futures
               /\ \E step \in {"open", "close"} : workers' = [workers EXCEPT ![w].step = step]
            \/ /\ workers[w] # Idle
               /\ \E f \in Finished(SpecOf(w)) :
                    /\ f # Failure(SpecOf(w)) => Builds(SpecOf(w)) \/ workers[w].step = "close"
                    /\ futures' = [futures EXCEPT ![workers[w].task] = f]
               /\ workers' = [workers EXCEPT ![w] = Idle]
<1> DEFINE Contents == {Torn} \cup {Key(spec) : spec \in ToSet(specs)}
<1>0. \A p \in DOMAIN files : files[p] \in Contents
  BY DEF TypeOK
<1>1. CASE Take(w)
  <2>1. PICK i \in DOMAIN futures :
          /\ workers[w] = Idle /\ futures[i] = Queued
          /\ IF HasKey(specs[i])
             THEN /\ futures' = [futures EXCEPT ![i] = Running]
                  /\ workers' = [workers EXCEPT ![w] = [step |-> "engine", task |-> i]]
             ELSE futures' = [futures EXCEPT ![i] = Raised] /\ UNCHANGED workers
    BY <1>1, Zenon DEF Take, MayTake, Eligible
  <2>2. UNCHANGED <<runner, specs, artifacts, phase, files, collected, deaths>>
    BY <1>1 DEF Take
  <2>3. \A p \in DOMAIN files' : files'[p] \in Contents
    BY <1>0, <2>2, Zenon
  <2> QED
    BY <2>1, <2>2, <2>3, Zenon
<1>2. CASE RunEngine(w)
  <2>1. workers[w] # Idle /\ Builds(SpecOf(w)) /\ UNCHANGED files
        /\ UNCHANGED <<runner, specs, artifacts, phase, collected, deaths>>
    BY <1>2, StepNotIdle DEF RunEngine, Finishes
  <2>2. \A p \in DOMAIN files' : files'[p] \in Contents
    BY <1>0, <2>1, Zenon
  <2>3. \/ /\ futures' = [futures EXCEPT ![workers[w].task] = Done(Success(SpecOf(w), NoArtifact))]
           /\ workers' = [workers EXCEPT ![w] = Idle]
        \/ workers' = [workers EXCEPT ![w].step = "open"] /\ UNCHANGED futures
    BY <1>2, Zenon DEF RunEngine, Finishes
  <2> QED
    BY <2>1, <2>2, <2>3, FinishedHas, Zenon
<1>3. CASE OpenArtifact(w)
  <2>1. workers[w].step = "open" /\ workers' = [workers EXCEPT ![w].step = "close"] /\ UNCHANGED futures
        /\ UNCHANGED <<runner, specs, artifacts, phase, collected, deaths>> /\ Put(ArtifactOf(SpecOf(w)), Torn)
    BY <1>3 DEF OpenArtifact
  <2>2. \A p \in DOMAIN files' : files'[p] \in Contents
    BY <2>1, AfterPut, Zenon
  <2>3. workers[w] # Idle
    BY <2>1, StepNotIdle
  <2> QED
    BY <2>1, <2>2, <2>3, Zenon
<1>4. CASE CloseArtifact(w)
  <2>1. workers[w].step = "close" /\ workers[w] # Idle
    BY <1>4, StepNotIdle DEF CloseArtifact
  <2>2. /\ \E content \in {Key(SpecOf(w)), Torn} : Put(ArtifactOf(SpecOf(w)), content)
        /\ Finishes(w, Done(Success(SpecOf(w), ArtifactOf(SpecOf(w)))))
    BY <1>4, Zenon DEF CloseArtifact
  <2>3. SpecOf(w) \in ToSet(specs)
    BY <2>1, AtTask, SpecsType DEF SpecOf
  <2>4. \A content \in {Key(SpecOf(w)), Torn} : content \in Contents
    BY <2>3, Zenon
  <2>5. \A p \in DOMAIN files' : files'[p] \in Contents
    BY <2>2, <2>4, AfterPut, Zenon
  <2> QED
    BY <2>1, <2>2, <2>5, FinishedHas, Zenon DEF Finishes
<1>5. CASE RunFails(w)
  <2>1. workers[w] # Idle /\ Finishes(w, Failure(SpecOf(w))) /\ UNCHANGED files
    BY <1>5, Zenon DEF RunFails
  <2>2. \A p \in DOMAIN files' : files'[p] \in Contents
    BY <1>0, <2>1, Zenon
  <2> QED
    BY <2>1, <2>2, FinishedHas, Zenon DEF Finishes
<1> QED
  BY <1>1, <1>2, <1>3, <1>4, <1>5, Zenon DEF Works

\* A worker that dies leaves every future it takes with it raised, or its own put back.
LEMMA AfterDeath ==
  ASSUME TypeOK, NEW w \in Workers, WorkerDies(w)
  PROVE  /\ UNCHANGED <<runner, specs, artifacts, phase, files, collected>>
         /\ deaths' = deaths + 1 /\ deaths < MaxDeaths
         /\ futures' \in Seq(FutureStates) /\ Len(futures') = Len(futures) /\ DOMAIN futures' = DOMAIN futures
         /\ \/ /\ \A i \in DOMAIN futures :
                    futures'[i] = IF futures[i] \in {Queued, Running} THEN Raised ELSE futures[i]
               /\ workers' = [v \in Workers |-> Idle]
            \/ /\ workers[w] # Idle
               /\ \E f \in {Queued, Raised} :
                    \A i \in DOMAIN futures : futures'[i] = IF i = workers[w].task THEN f ELSE futures[i]
               /\ workers' = [workers EXCEPT ![w] = Idle]
<1>0. futures \in Seq(FutureStates) /\ Queued \in FutureStates /\ Raised \in FutureStates
      /\ Len(futures) \in Nat /\ DOMAIN futures = 1 .. Len(futures)
  BY SpecsType DEF FutureStates
<1>1. UNCHANGED <<runner, specs, artifacts, phase, files, collected>>
      /\ deaths' = deaths + 1 /\ deaths < MaxDeaths /\ workers[w] # Idle
  BY DEF WorkerDies
<1>2. CASE Pool
  <2>1. /\ futures' = [i \in DOMAIN futures |->
                         IF futures[i] \in {Queued, Running} THEN Raised ELSE futures[i]]
        /\ workers' = [v \in Workers |-> Idle]
    BY <1>2 DEF WorkerDies
  <2> HIDE DEF FutureStates
  <2>2. \A i \in DOMAIN futures : futures[i] \in FutureStates
    BY <1>0
  <2>3. futures' \in [1 .. Len(futures) -> FutureStates]
    BY <1>0, <2>1, <2>2
  <2>4. futures' \in Seq(FutureStates) /\ Len(futures') = Len(futures)
    BY <1>0, <2>3
  <2> QED
    BY <1>1, <2>1, <2>4
<1>3. CASE ~ Pool
  <2>1. PICK f \in {Queued, Raised} : futures' = [futures EXCEPT ![workers[w].task] = f]
    BY <1>3 DEF WorkerDies
  <2>2. workers' = [workers EXCEPT ![w] = Idle]
    BY <1>3 DEF WorkerDies
  <2>3. workers[w].task \in DOMAIN futures
    BY <1>1, AtTask
  <2> QED
    BY <1>0, <1>1, <2>1, <2>2, <2>3, SetOne, Zenon
<1> QED
  BY <1>2, <1>3

\* What a step of the caller does.
LEMMA CallerSteps ==
  ASSUME TypeOK, Caller
  PROVE  /\ UNCHANGED <<runner, specs, artifacts, workers, files, deaths>>
         /\ \/ futures' = Append(futures, Queued) /\ Len(futures) < Len(specs)
               /\ phase = "submit" /\ UNCHANGED <<phase, collected>>
            \/ phase = "submit" /\ phase' = "collect" /\ UNCHANGED <<futures, collected>>
            \/ phase = "submit" /\ phase' = "closing" /\ deaths > 0 /\ UNCHANGED <<futures, collected>>
            \/ /\ phase = "collect" /\ phase' \in {"closing", "raised"} /\ UNCHANGED <<futures, collected>>
               /\ \E i \in DOMAIN futures : futures[i] = Raised
            \/ /\ phase = "collect" /\ UNCHANGED <<phase, futures>>
               /\ \E i \in DOMAIN futures : Ready(i) /\ futures[i] # Raised /\ collected' = Append(collected, i)
            \/ /\ phase = "collect" /\ UNCHANGED <<phase, futures>>
               /\ \A i \in DOMAIN futures : Ready(i) /\ futures[i] # Raised
               /\ collected' = [i \in DOMAIN futures |-> i]
            \/ phase = "closing" /\ phase' = "raised" /\ UNCHANGED <<futures, collected>>
            \/ phase = "collect" /\ phase' = "returned" /\ AllIn /\ UNCHANGED <<futures, collected>>
<1>1. CASE Submit
  BY <1>1, SpecsType DEF Submit, Broken, TypeOK
<1>2. CASE Collect
  BY <1>2, Zenon DEF Collect
<1>3. CASE RayGet
  BY <1>3, Zenon DEF RayGet
<1>4. CASE Close
  BY <1>4 DEF Close
<1>5. CASE Return
  BY <1>5 DEF Return
<1> QED
  BY <1>1, <1>2, <1>3, <1>4, <1>5 DEF Caller

\* The rest of TypeOK, given that of its parts a step changes.
LEMMA TypeFrom ==
  ASSUME TypeOK, UNCHANGED <<runner, specs, artifacts>>,
         phase' \in {"submit", "collect", "closing", "returned", "raised"},
         futures' \in Seq(FutureStates), Len(futures') <= Len(specs),
         workers' \in [Workers -> {Idle} \cup [step : {"engine", "open", "close"}, task : DOMAIN futures']],
         \A p \in DOMAIN files' : files'[p] \in {Torn} \cup {Key(spec) : spec \in ToSet(specs)},
         collected' \in Seq(DOMAIN futures'), deaths' \in 0 .. MaxDeaths
  PROVE  TypeOK'
<1>1. futures' \in Seq({Queued, Running, Raised} \cup UNION {Finished(spec) : spec \in ToSet(specs')})
      /\ Len(futures') <= Len(specs')
  BY Zenon DEF FutureStates
<1>2. \A p \in DOMAIN files' : files'[p] \in {Torn} \cup {Key(spec) : spec \in ToSet(specs')}
  BY Zenon
<1>3. /\ runner' \in {"simple", "multiprocess", "ray"} /\ specs' \in SpecLists /\ artifacts' \in BOOLEAN
  BY DEF TypeOK
<1> QED
  BY <1>1, <1>2, <1>3, Zenon DEF TypeOK

\* A sequence over a set is one over a larger set.
LEMMA LongerSeq ==
  ASSUME NEW S, NEW T, S \subseteq T, NEW q \in Seq(S)
  PROVE  q \in Seq(T)
OBVIOUS

\* Every step of a sweep keeps its types.
LEMMA TypeStep ==
  ASSUME TypeOK, [Next]_vars
  PROVE  TypeOK'
<1> DEFINE Places(n) == {Idle} \cup [step : {"engine", "open", "close"}, task : n]
<1>0. /\ futures \in Seq(FutureStates) /\ Len(futures) <= Len(specs) /\ Len(futures) \in Nat /\ Len(specs) \in Nat
      /\ workers \in [Workers -> Places(DOMAIN futures)]
      /\ \A p \in DOMAIN files : files[p] \in {Torn} \cup {Key(spec) : spec \in ToSet(specs)}
      /\ collected \in Seq(DOMAIN futures) /\ deaths \in 0 .. MaxDeaths
      /\ phase \in {"submit", "collect", "closing", "returned", "raised"}
      /\ DOMAIN futures = 1 .. Len(futures)
  BY SpecsType DEF TypeOK
<1>1. ASSUME NEW w \in Workers, Works(w)
      PROVE  TypeOK'
  <2>1. /\ UNCHANGED <<runner, specs, artifacts, phase, collected, deaths>>
        /\ \A p \in DOMAIN files' : files'[p] \in {Torn} \cup {Key(spec) : spec \in ToSet(specs)}
    BY <1>1, WorkSteps
  <2>2. /\ futures' \in Seq(FutureStates) /\ Len(futures') = Len(futures) /\ DOMAIN futures' = DOMAIN futures
        /\ workers' \in [Workers -> Places(DOMAIN futures)]
    <3>1. ASSUME NEW i \in DOMAIN futures, futures' = [futures EXCEPT ![i] = Running],
                 workers' = [workers EXCEPT ![w] = [step |-> "engine", task |-> i]]
          PROVE  /\ futures' \in Seq(FutureStates) /\ Len(futures') = Len(futures) /\ DOMAIN futures' = DOMAIN futures
                 /\ workers' \in [Workers -> Places(DOMAIN futures)]
      <4>1. Running \in FutureStates
        BY DEF FutureStates
      <4>2. [step |-> "engine", task |-> i] \in Places(DOMAIN futures)
        OBVIOUS
      <4> HIDE DEF Places
      <4>3. workers' \in [Workers -> Places(DOMAIN futures)]
        BY <1>0, <3>1, <4>2
      <4> QED
        BY <3>1, <4>1, <4>3, SetOne, Zenon
    <3>2. ASSUME NEW i \in DOMAIN futures, futures' = [futures EXCEPT ![i] = Raised], UNCHANGED workers
          PROVE  /\ futures' \in Seq(FutureStates) /\ Len(futures') = Len(futures) /\ DOMAIN futures' = DOMAIN futures
                 /\ workers' \in [Workers -> Places(DOMAIN futures)]
      <4>1. Raised \in FutureStates
        BY DEF FutureStates
      <4> QED
        BY <1>0, <3>2, <4>1, SetOne, Zenon
    <3>3. ASSUME workers[w] # Idle, UNCHANGED futures, NEW step \in {"open", "close"},
                 workers' = [workers EXCEPT ![w].step = step]
          PROVE  /\ futures' \in Seq(FutureStates) /\ Len(futures') = Len(futures) /\ DOMAIN futures' = DOMAIN futures
                 /\ workers' \in [Workers -> Places(DOMAIN futures)]
      <4>1. workers[w] \in [step : {"engine", "open", "close"}, task : DOMAIN futures]
        BY <3>3, AtTask
      <4>2. [workers[w] EXCEPT !.step = step] \in Places(DOMAIN futures)
        BY <4>1
      <4>3. workers' = [workers EXCEPT ![w] = [workers[w] EXCEPT !.step = step]]
        BY <3>3
      <4> HIDE DEF Places
      <4>4. workers' \in [Workers -> Places(DOMAIN futures)]
        BY <1>0, <4>2, <4>3
      <4> QED
        BY <1>0, <3>3, <4>4
    <3>4. ASSUME workers[w] # Idle, NEW f \in Finished(SpecOf(w)),
                 futures' = [futures EXCEPT ![workers[w].task] = f], workers' = [workers EXCEPT ![w] = Idle]
          PROVE  /\ futures' \in Seq(FutureStates) /\ Len(futures') = Len(futures) /\ DOMAIN futures' = DOMAIN futures
                 /\ workers' \in [Workers -> Places(DOMAIN futures)]
      BY <3>4, AfterFinish, Zenon
    <3> HIDE DEF Places
    <3> QED
      BY <1>1, <3>1, <3>2, <3>3, <3>4, WorkSteps, Zenon
  <2> QED
    BY <1>0, <2>1, <2>2, TypeFrom
<1>2. ASSUME NEW w \in Workers, WorkerDies(w)
      PROVE  TypeOK'
  <2>1. /\ UNCHANGED <<runner, specs, artifacts, phase, files, collected>>
        /\ deaths' = deaths + 1 /\ deaths < MaxDeaths
        /\ futures' \in Seq(FutureStates) /\ Len(futures') = Len(futures) /\ DOMAIN futures' = DOMAIN futures
        /\ workers' = [v \in Workers |-> Idle] \/ workers' = [workers EXCEPT ![w] = Idle]
    BY <1>2, AfterDeath, Zenon
  <2>2. workers' \in [Workers -> Places(DOMAIN futures)]
    BY <1>0, <2>1
  <2>3. deaths' \in 0 .. MaxDeaths
    BY <1>0, <2>1, SweepAssumption
  <2> QED
    BY <1>0, <2>1, <2>2, <2>3, TypeFrom
<1>3. CASE Caller
  <2>1. UNCHANGED <<runner, specs, artifacts, workers, files, deaths>>
        /\ phase' \in {"submit", "collect", "closing", "returned", "raised"}
    BY <1>0, <1>3, CallerSteps
  <2>2. \/ futures' = Append(futures, Queued) /\ Len(futures) < Len(specs)
        \/ futures' = futures
    BY <1>3, CallerSteps, Zenon
  <2>3. /\ futures' \in Seq(FutureStates) /\ Len(futures') <= Len(specs)
        /\ DOMAIN futures \subseteq DOMAIN futures'
    <3>1. Queued \in FutureStates
      BY DEF FutureStates
    <3> HIDE DEF FutureStates
    <3>2. CASE futures' = Append(futures, Queued) /\ Len(futures) < Len(specs)
      <4>1. futures' \in Seq(FutureStates) /\ Len(futures') = Len(futures) + 1
        BY <1>0, <3>1, <3>2
      <4>2. DOMAIN futures' = 1 .. (Len(futures) + 1)
        BY <4>1
      <4> QED
        BY <1>0, <3>2, <4>1, <4>2
    <3>3. CASE futures' = futures
      BY <1>0, <3>3
    <3> QED
      BY <2>2, <3>2, <3>3
  <2>4. workers' \in [Workers -> Places(DOMAIN futures')]
    BY <1>0, <2>1, <2>3
  <2>5. collected' \in Seq(DOMAIN futures')
    <3>1. collected \in Seq(DOMAIN futures')
      BY <1>0, <2>3, LongerSeq
    <3>2. ASSUME NEW i \in DOMAIN futures, collected' = Append(collected, i), UNCHANGED futures
          PROVE  collected' \in Seq(DOMAIN futures')
      BY <1>0, <3>2
    <3>3. ASSUME collected' = [i \in DOMAIN futures |-> i], UNCHANGED futures
          PROVE  collected' \in Seq(DOMAIN futures')
      BY <1>0, <3>3
    <3> QED
      BY <1>3, <3>1, <3>2, <3>3, CallerSteps, Zenon
  <2> QED
    BY <1>0, <2>1, <2>3, <2>4, <2>5, TypeFrom
<1>4. CASE UNCHANGED vars
  BY <1>0, <1>4, TypeFrom DEF vars
<1>5. CASE Next
  BY <1>5, <1>1, <1>2, <1>3 DEF Next
<1> QED
  BY <1>4, <1>5

-----------------------------------------------------------------------------
(* The invariant *)

LEMMA InitInvariant ==
  ASSUME Init
  PROVE  IInv
<1>1. specs \in Seq(ToSet(specs)) /\ Len(specs) \in Nat /\ DOMAIN specs = 1 .. Len(specs)
  BY SweepAssumption DEF Init
<1>2. futures = [i \in DOMAIN specs |-> Queued] \/ futures = <<>>
  BY DEF Init
<1>3. futures \in Seq(FutureStates) /\ Len(futures) <= Len(specs) /\ \A i \in DOMAIN futures : futures[i] = Queued
  <2>1. Queued \in FutureStates
    BY DEF FutureStates
  <2> HIDE DEF FutureStates
  <2>2. CASE futures = [i \in DOMAIN specs |-> Queued]
    <3>1. futures = [i \in 1 .. Len(specs) |-> Queued]
      BY <1>1, <2>2
    <3> QED
      BY <1>1, <2>1, <3>1
  <2>3. CASE futures = <<>>
    BY <1>1, <2>3
  <2> QED
    BY <1>2, <2>2, <2>3
<1>4. /\ workers = [w \in Workers |-> Idle] /\ files = <<>> /\ collected = <<>> /\ deaths = 0
      /\ phase \in {"collect", "submit"}
  BY DEF Init
<1>5. DOMAIN files = {} /\ DOMAIN collected = {}
  BY <1>4
<1>6. 0 \in 0 .. MaxDeaths
  BY SweepAssumption
<1>7. TypeOK
  <2>1. workers \in [Workers -> {Idle} \cup [step : {"engine", "open", "close"}, task : DOMAIN futures]]
        /\ collected \in Seq(DOMAIN futures)
    BY <1>4
  <2>2. \A p \in DOMAIN files : files[p] \in {Torn} \cup {Key(spec) : spec \in ToSet(specs)}
    BY <1>5, Zenon
  <2>3. /\ runner \in {"simple", "multiprocess", "ray"} /\ specs \in SpecLists /\ artifacts \in BOOLEAN
        /\ phase \in {"submit", "collect", "closing", "returned", "raised"} /\ deaths \in 0 .. MaxDeaths
    BY <1>6, <1>4 DEF Init
  <2> QED
    BY <1>3, <2>1, <2>2, <2>3, Zenon DEF TypeOK, FutureStates
<1>8. DataInv
  <2>1. RaisesHaveACause /\ FuturesAreOwn
    BY <1>3, <1>4, FutureStatesDiffer DEF RaisesHaveACause, FuturesAreOwn
  <2>2. WorkersAreAtTheirs
    <3>1. \A w \in Workers : workers[w] = Idle /\ workers[w].step \notin {"open", "close"}
      BY <1>4 DEF Idle
    <3> QED
      BY <3>1, Zenon DEF WorkersAreAtTheirs
  <2>3. CollectedAreDone
    BY <1>4, <1>5 DEF CollectedAreDone
  <2> QED
    BY <2>1, <2>2, <2>3 DEF DataInv
<1> QED
  BY <1>7, <1>8 DEF IInv

\* What a step of a worker or a death may do to a future: it takes up a queued one, ends or
\* puts back a running one, or raises one that has no result.
LEMMA FutureSteps ==
  ASSUME IInv, [Next]_vars
  PROVE  /\ specs' = specs /\ DOMAIN futures \subseteq DOMAIN futures'
         /\ \A i \in DOMAIN futures' \ DOMAIN futures : futures'[i] = Queued
         /\ \A i \in DOMAIN futures :
              \/ futures'[i] = futures[i]
              \/ futures[i] = Queued /\ futures'[i] = Running /\ HasKey(specs[i])
              \/ /\ futures[i] \in {Queued, Running} /\ futures'[i] = Raised
                 /\ deaths' > 0 \/ ~ HasKey(specs[i])
              \/ futures[i] = Running /\ futures'[i] = Queued
              \/ /\ futures[i] = Running /\ HasKey(specs[i]) /\ futures'[i] \in Finished(specs[i])
                 /\ futures'[i] # Failure(specs[i]) => Builds(specs[i])
<1>0. /\ TypeOK /\ WorkersAreAtTheirs /\ futures \in Seq(FutureStates)
      /\ Running \in FutureStates /\ Raised \in FutureStates
      /\ Len(futures) \in Nat /\ DOMAIN futures = 1 .. Len(futures)
  BY SpecsType DEF IInv, DataInv, FutureStates
<1>1. ASSUME NEW w \in Workers, Works(w), NEW i \in DOMAIN futures, futures'[i] # futures[i]
      PROVE  \/ futures[i] = Queued /\ futures'[i] = Running /\ HasKey(specs[i])
             \/ futures[i] = Queued /\ futures'[i] = Raised /\ ~ HasKey(specs[i])
             \/ /\ futures[i] = Running /\ HasKey(specs[i]) /\ futures'[i] \in Finished(specs[i])
                /\ futures'[i] # Failure(specs[i]) => Builds(specs[i])
  <2>1. ASSUME NEW j \in DOMAIN futures, futures[j] = Queued, HasKey(specs[j]),
               futures' = [futures EXCEPT ![j] = Running]
        PROVE  futures[i] = Queued /\ futures'[i] = Running /\ HasKey(specs[i])
    <3>1. i = j
      BY <1>0, <1>1, <2>1, SetOne
    <3> QED
      BY <1>0, <2>1, <3>1, SetOne
  <2>2. ASSUME NEW j \in DOMAIN futures, futures[j] = Queued, ~ HasKey(specs[j]),
               futures' = [futures EXCEPT ![j] = Raised]
        PROVE  futures[i] = Queued /\ futures'[i] = Raised /\ ~ HasKey(specs[i])
    <3>1. i = j
      BY <1>0, <1>1, <2>2, SetOne
    <3> QED
      BY <1>0, <2>2, <3>1, SetOne
  <2>3. ASSUME workers[w] # Idle, NEW f \in Finished(SpecOf(w)),
               f # Failure(SpecOf(w)) => Builds(SpecOf(w)) \/ workers[w].step = "close",
               futures' = [futures EXCEPT ![workers[w].task] = f], workers' = [workers EXCEPT ![w] = Idle]
        PROVE  /\ futures[i] = Running /\ HasKey(specs[i]) /\ futures'[i] \in Finished(specs[i])
               /\ futures'[i] # Failure(specs[i]) => Builds(specs[i])
    <3>1. /\ \A j \in DOMAIN futures : futures'[j] = IF j = workers[w].task THEN f ELSE futures[j]
      BY <1>0, <2>3, AfterFinish
    <3>2. i = workers[w].task /\ futures'[i] = f /\ SpecOf(w) = specs[i]
      BY <1>1, <3>1 DEF SpecOf
    <3>3. futures[i] = Running /\ HasKey(SpecOf(w)) /\ (workers[w].step = "close" => Builds(SpecOf(w)))
      BY <1>0, <2>3, <3>2, Zenon DEF WorkersAreAtTheirs
    <3> QED
      BY <2>3, <3>2, <3>3, Zenon
  <2> QED
    BY <1>0, <1>1, <2>1, <2>2, <2>3, WorkSteps, Zenon
<1>2. ASSUME NEW w \in Workers, Works(w)
      PROVE  specs' = specs /\ DOMAIN futures' = DOMAIN futures
  <2>1. TypeOK'
    BY <1>0, <1>2, TypeStep DEF Next
  <2> QED
    BY <1>0, <1>2, WorkSteps, SetOne, AfterFinish, Zenon
<1>3. ASSUME NEW w \in Workers, WorkerDies(w)
      PROVE  /\ specs' = specs /\ DOMAIN futures' = DOMAIN futures /\ deaths' > 0
             /\ \A i \in DOMAIN futures :
                  \/ futures'[i] = futures[i]
                  \/ futures[i] \in {Queued, Running} /\ futures'[i] = Raised
                  \/ futures[i] = Running /\ futures'[i] = Queued
  <2>1. deaths' > 0
    BY <1>0, <1>3, AfterDeath DEF TypeOK
  <2>2. workers[w] # Idle => futures[workers[w].task] = Running
    BY <1>0, Zenon DEF WorkersAreAtTheirs
  <2> QED
    BY <1>0, <1>3, <2>1, <2>2, AfterDeath, Zenon
<1>4. ASSUME Caller
      PROVE  /\ specs' = specs /\ DOMAIN futures \subseteq DOMAIN futures'
             /\ \A i \in DOMAIN futures : futures'[i] = futures[i]
             /\ \A i \in DOMAIN futures' \ DOMAIN futures : futures'[i] = Queued
  <2>1. CASE futures' = Append(futures, Queued)
    <3> HIDE DEF FutureStates
    <3>1. specs' = specs
      BY <1>0, <1>4, CallerSteps
    <3>2. Queued \in FutureStates
      BY DEF FutureStates
    <3>3. /\ DOMAIN futures' = 1 .. (Len(futures) + 1)
          /\ \A i \in 1 .. Len(futures) : futures'[i] = futures[i]
          /\ futures'[Len(futures) + 1] = Queued
      BY <1>0, <2>1, <3>2
    <3> QED
      BY <1>0, <3>1, <3>3
  <2>2. CASE futures' = futures
    BY <1>0, <1>4, <2>2, CallerSteps
  <2> QED
    BY <1>0, <1>4, <2>1, <2>2, CallerSteps
<1>5. CASE UNCHANGED vars
  BY <1>5 DEF vars
<1>6. CASE \E w \in Workers : Works(w)
  BY <1>1, <1>2, <1>6, Zenon
<1>7. CASE \E w \in Workers : WorkerDies(w)
  BY <1>3, <1>7, Zenon
<1> QED
  BY <1>4, <1>5, <1>6, <1>7, Zenon DEF Next

LEMMA OwnStep ==
  ASSUME IInv, [Next]_vars
  PROVE  FuturesAreOwn'
<1> SUFFICES ASSUME NEW i \in DOMAIN futures', futures'[i] \notin {Queued, Running, Raised}
             PROVE  /\ futures'[i] \in Finished(specs[i]) /\ HasKey(specs[i])
                    /\ futures'[i] # Failure(specs[i]) => Builds(specs[i])
  <2>1. specs' = specs
    BY FutureSteps
  <2> QED
    BY <2>1, Zenon DEF FuturesAreOwn
<1>1. i \in DOMAIN futures
  BY FutureSteps
<1>2. CASE futures'[i] = futures[i]
  BY <1>1, <1>2, Zenon DEF IInv, DataInv, FuturesAreOwn
<1> QED
  BY <1>1, <1>2, FutureSteps

LEMMA CauseStep ==
  ASSUME IInv, [Next]_vars
  PROVE  RaisesHaveACause'
<1>0. /\ TypeOK /\ RaisesHaveACause /\ specs' = specs
      /\ DOMAIN futures \subseteq DOMAIN specs
  BY FutureSteps, SpecsType DEF IInv, DataInv
<1>1. deaths \in Nat /\ (deaths' = deaths \/ deaths' = deaths + 1)
  <2>1. deaths \in Nat
    BY <1>0 DEF TypeOK
  <2>2. \A w \in Workers : Works(w) => deaths' = deaths
    BY <1>0, WorkSteps
  <2>3. \A w \in Workers : WorkerDies(w) => deaths' = deaths + 1
    BY <1>0, AfterDeath
  <2>4. Caller => deaths' = deaths
    BY <1>0, CallerSteps
  <2>5. UNCHANGED vars => deaths' = deaths
    BY DEF vars
  <2> QED
    BY <2>1, <2>2, <2>3, <2>4, <2>5, Zenon DEF Next
<1>2. Cause => Cause'
  BY <1>0, <1>1 DEF Cause
<1>3. ASSUME NEW i \in DOMAIN futures', futures'[i] = Raised
      PROVE  Cause'
  <2>1. i \in DOMAIN futures
    BY <1>3, FutureSteps, FutureStatesDiffer
  <2>2. futures[i] = Raised => Cause'
    BY <1>0, <1>2, <2>1, Zenon DEF RaisesHaveACause
  <2>3. deaths' > 0 => Cause'
    BY DEF Cause
  <2>4. ~ HasKey(specs[i]) => Cause'
    BY <1>0, <2>1 DEF Cause
  <2>5. futures'[i] \notin Finished(specs[i])
    BY <1>3, FutureStatesDiffer
  <2> QED
    BY <1>3, <2>1, <2>2, <2>3, <2>4, <2>5, FutureSteps, FutureStatesDiffer
<1>4. ASSUME phase' \in {"closing", "raised"}
      PROVE  Cause'
  <2>1. CASE phase' = phase
    BY <1>0, <1>2, <1>4, <2>1, Zenon DEF RaisesHaveACause
  <2>2. CASE phase' # phase
    <3>1. Caller
      <4>1. \A w \in Workers : ~ Works(w) /\ ~ WorkerDies(w)
        BY <1>0, <2>2, WorkSteps, AfterDeath
      <4>2. ~ UNCHANGED vars
        BY <2>2 DEF vars
      <4> QED
        BY <4>1, <4>2, Zenon DEF Next
    <3>2. \/ deaths > 0 \/ phase = "closing"
          \/ \E i \in DOMAIN futures : futures[i] = Raised
      BY <1>0, <1>4, <2>2, <3>1, CallerSteps
    <3> QED
      BY <1>0, <1>1, <1>2, <3>2, Zenon DEF RaisesHaveACause, Cause
  <2> QED
    BY <2>1, <2>2
<1> QED
  BY <1>3, <1>4, Zenon DEF RaisesHaveACause

LEMMA CollectedStep ==
  ASSUME IInv, [Next]_vars
  PROVE  CollectedAreDone'
<1>0. /\ TypeOK /\ CollectedAreDone /\ collected \in Seq(DOMAIN futures) /\ specs' = specs
      /\ Len(futures) \in Nat /\ DOMAIN futures = 1 .. Len(futures)
  BY FutureSteps, SpecsType DEF IInv, DataInv, TypeOK
<1>1. \A i \in DOMAIN futures :
        futures[i] \notin {Queued, Running, Raised} => futures'[i] = futures[i]
  BY FutureSteps
<1>2. \A k \in DOMAIN collected : collected[k] \in DOMAIN futures
  BY <1>0
<1>3. CASE UNCHANGED <<collected, phase>>
  <2>1. \A k \in DOMAIN collected : futures'[collected[k]] \notin {Queued, Running, Raised}
    BY <1>0, <1>1, <1>2, Zenon DEF CollectedAreDone
  <2>2. AllIn' = AllIn
    BY <1>0, <1>3 DEF AllIn
  <2> QED
    BY <1>0, <1>3, <2>1, <2>2, Zenon DEF CollectedAreDone
<1>4. ASSUME Caller
      PROVE  CollectedAreDone'
  <2>1. ASSUME NEW i \in DOMAIN futures, Ready(i), futures[i] # Raised, collected' = Append(collected, i),
               UNCHANGED <<phase, futures>>, phase = "collect"
        PROVE  CollectedAreDone'
    <3>1. /\ Len(collected) \in Nat /\ DOMAIN collected = 1 .. Len(collected)
          /\ DOMAIN collected' = 1 .. (Len(collected) + 1)
          /\ \A k \in 1 .. Len(collected) : collected'[k] = collected[k]
          /\ collected'[Len(collected) + 1] = i
      BY <1>0, <2>1
    <3>2. futures[i] \notin {Queued, Running, Raised} /\ \A k \in DOMAIN collected : collected[k] # i
      BY <2>1 DEF Ready, ToSet
    <3>3. \A j, k \in DOMAIN collected' : collected'[j] = collected'[k] => j = k
      BY <1>0, <3>1, <3>2 DEF CollectedAreDone
    <3>4. \A k \in DOMAIN collected' : futures[collected'[k]] \notin {Queued, Running, Raised}
      BY <1>0, <3>1, <3>2 DEF CollectedAreDone
    <3> QED
      BY <2>1, <3>3, <3>4, Zenon DEF CollectedAreDone
  <2>2. ASSUME \A i \in DOMAIN futures : Ready(i) /\ futures[i] # Raised,
               collected' = [i \in DOMAIN futures |-> i], UNCHANGED <<phase, futures>>, phase = "collect"
        PROVE  CollectedAreDone'
    <3>1. \A i \in DOMAIN futures : futures[i] \notin {Queued, Running, Raised}
      BY <2>2 DEF Ready
    <3>2. DOMAIN collected' = DOMAIN futures /\ \A i \in DOMAIN futures : collected'[i] = i
      BY <2>2
    <3> QED
      BY <2>2, <3>1, <3>2, Zenon DEF CollectedAreDone
  <2>3. CASE collected' = collected /\ (phase' # "returned" \/ AllIn)
    <3>1. \A k \in DOMAIN collected : futures'[collected[k]] \notin {Queued, Running, Raised}
      BY <1>0, <1>1, <1>2, Zenon DEF CollectedAreDone
    <3>2. AllIn' = AllIn
      BY <1>0, <2>3 DEF AllIn
    <3> QED
      BY <1>0, <2>3, <3>1, <3>2, Zenon DEF CollectedAreDone
  <2>4. \/ UNCHANGED <<collected, phase>>
        \/ collected' = collected /\ (phase' # "returned" \/ AllIn)
        \/ /\ phase = "collect" /\ UNCHANGED <<phase, futures>>
           /\ \/ \E i \in DOMAIN futures : Ready(i) /\ futures[i] # Raised /\ collected' = Append(collected, i)
              \/ /\ \A i \in DOMAIN futures : Ready(i) /\ futures[i] # Raised
                 /\ collected' = [i \in DOMAIN futures |-> i]
    BY <1>0, <1>4, CallerSteps
  <2> QED
    BY <1>3, <2>1, <2>2, <2>3, <2>4, Zenon
<1>5. ASSUME NEW w \in Workers, Works(w) \/ WorkerDies(w)
      PROVE  CollectedAreDone'
  <2>1. UNCHANGED collected /\ UNCHANGED phase
    BY <1>0, <1>5, WorkSteps, AfterDeath
  <2> QED
    BY <1>3, <2>1
<1>6. CASE UNCHANGED vars
  BY <1>3, <1>6 DEF vars
<1> QED
  BY <1>4, <1>5, <1>6, Zenon DEF Next

\* The invariant of the workers, from what holds of each of them after a step.
LEMMA WorkersFrom ==
  ASSUME specs' = specs,
         \A w \in Workers : workers'[w] # Idle =>
           /\ futures'[workers'[w].task] = Running /\ HasKey(specs[workers'[w].task])
           /\ workers'[w].step \in {"open", "close"} => Builds(specs[workers'[w].task]),
         \A v, w \in Workers :
           workers'[v] # Idle /\ workers'[w] # Idle /\ workers'[v].task = workers'[w].task => v = w
  PROVE  WorkersAreAtTheirs'
<1>1. \A w \in Workers : workers'[w].step \in {"open", "close"} => workers'[w] # Idle
  BY DEF Idle
<1> QED
  BY <1>1, Zenon DEF WorkersAreAtTheirs, SpecOf

\* The same of each of them before it.
LEMMA WorkersNow ==
  ASSUME IInv, NEW w \in Workers, workers[w] # Idle
  PROVE  /\ workers[w].task \in DOMAIN futures
         /\ futures[workers[w].task] = Running /\ HasKey(specs[workers[w].task])
         /\ workers[w].step \in {"open", "close"} => Builds(specs[workers[w].task])
         /\ \A v \in Workers : workers[v] # Idle /\ workers[v].task = workers[w].task => v = w
<1>1. workers[w].task \in DOMAIN futures
  BY AtTask DEF IInv
<1> QED
  BY <1>1, Zenon DEF IInv, DataInv, WorkersAreAtTheirs, SpecOf

LEMMA WorkersStep ==
  ASSUME IInv, [Next]_vars
  PROVE  WorkersAreAtTheirs'
<1>0. /\ TypeOK /\ specs' = specs
      /\ DOMAIN workers = Workers
  BY FutureSteps DEF IInv, TypeOK
<1>1. ASSUME UNCHANGED workers, \A i \in DOMAIN futures : futures[i] = Running => futures'[i] = Running
      PROVE  WorkersAreAtTheirs'
  BY <1>0, <1>1, WorkersNow, WorkersFrom
<1>2. ASSUME NEW w \in Workers, NEW i \in DOMAIN futures, workers[w] = Idle, futures[i] = Queued, HasKey(specs[i]),
             futures' = [futures EXCEPT ![i] = Running],
             workers' = [workers EXCEPT ![w] = [step |-> "engine", task |-> i]]
      PROVE  WorkersAreAtTheirs'
  <2>1. \A v \in Workers : workers'[v] = IF v = w THEN [step |-> "engine", task |-> i] ELSE workers[v]
    BY <1>0, <1>2
  <2>2. \A j \in DOMAIN futures : futures[j] = Running \/ j = i => futures'[j] = Running
    BY <1>2
  <2>3. \A v \in Workers : v # w /\ workers[v] # Idle => workers[v].task # i
    BY <1>2, WorkersNow, FutureStatesDiffer
  <2>4. \A v \in Workers : workers'[v] # Idle =>
           /\ futures'[workers'[v].task] = Running /\ HasKey(specs[workers'[v].task])
           /\ workers'[v].step \in {"open", "close"} => Builds(specs[workers'[v].task])
    BY <1>2, <2>1, <2>2, WorkersNow
  <2>5. \A u, v \in Workers :
           workers'[u] # Idle /\ workers'[v] # Idle /\ workers'[u].task = workers'[v].task => u = v
    BY <2>1, <2>3, WorkersNow
  <2> QED
    BY <1>0, <2>4, <2>5, WorkersFrom
<1>3. ASSUME NEW w \in Workers, workers[w] # Idle, Builds(SpecOf(w)) \/ workers[w].step = "open", UNCHANGED futures,
             NEW step \in {"open", "close"}, workers' = [workers EXCEPT ![w].step = step]
      PROVE  WorkersAreAtTheirs'
  <2>1. workers[w] \in [step : {"engine", "open", "close"}, task : DOMAIN futures]
    BY <1>0, <1>3, AtTask
  <2>2. /\ workers'[w] = [step |-> step, task |-> workers[w].task]
        /\ \A v \in Workers : v # w => workers'[v] = workers[v]
    BY <1>0, <1>3, <2>1
  <2>3. Builds(specs[workers[w].task])
    BY <1>3, WorkersNow DEF SpecOf
  <2>4. \A v \in Workers : workers'[v] # Idle => workers[v] # Idle /\ workers'[v].task = workers[v].task
    BY <1>3, <2>2
  <2>5. \A v \in Workers : workers'[v] # Idle =>
           /\ futures'[workers'[v].task] = Running /\ HasKey(specs[workers'[v].task])
           /\ workers'[v].step \in {"open", "close"} => Builds(specs[workers'[v].task])
    BY <1>3, <2>2, <2>3, <2>4, WorkersNow
  <2>6. \A u, v \in Workers :
           workers'[u] # Idle /\ workers'[v] # Idle /\ workers'[u].task = workers'[v].task => u = v
    BY <2>4, WorkersNow
  <2> QED
    BY <1>0, <2>5, <2>6, WorkersFrom
<1>4. ASSUME NEW w \in Workers, workers[w] # Idle, workers' = [workers EXCEPT ![w] = Idle],
             \A i \in DOMAIN futures : i # workers[w].task => futures'[i] = futures[i]
      PROVE  WorkersAreAtTheirs'
  <2>1. \A v \in Workers : workers'[v] # Idle => v # w /\ workers'[v] = workers[v]
    BY <1>0, <1>4
  <2>2. \A v \in Workers : workers'[v] # Idle =>
           /\ futures'[workers'[v].task] = Running /\ HasKey(specs[workers'[v].task])
           /\ workers'[v].step \in {"open", "close"} => Builds(specs[workers'[v].task])
    BY <1>4, <2>1, WorkersNow
  <2>3. \A u, v \in Workers :
           workers'[u] # Idle /\ workers'[v] # Idle /\ workers'[u].task = workers'[v].task => u = v
    BY <2>1, WorkersNow
  <2> QED
    BY <1>0, <2>2, <2>3, WorkersFrom
<1>5. ASSUME NEW w \in Workers, Works(w)
      PROVE  WorkersAreAtTheirs'
  <2>1. ASSUME NEW i \in DOMAIN futures, futures[i] = Queued, futures' = [futures EXCEPT ![i] = Raised]
        PROVE  \A j \in DOMAIN futures : futures[j] = Running => futures'[j] = Running
    BY <2>1, FutureStatesDiffer
  <2>2. ASSUME NEW f, futures' = [futures EXCEPT ![workers[w].task] = f]
        PROVE  \A i \in DOMAIN futures : i # workers[w].task => futures'[i] = futures[i]
    BY <2>2
  <2> QED
    BY <1>0, <1>1, <1>2, <1>3, <1>4, <1>5, <2>1, <2>2, WorkSteps, Zenon
<1>6. ASSUME NEW w \in Workers, WorkerDies(w)
      PROVE  WorkersAreAtTheirs'
  <2>1. CASE workers' = [v \in Workers |-> Idle]
    BY <1>0, <2>1, WorkersFrom
  <2> QED
    BY <1>0, <1>4, <1>6, <2>1, AfterDeath, Zenon
<1>7. CASE Caller
  <2>1. UNCHANGED workers
    BY <1>0, <1>7, CallerSteps
  <2>2. \A i \in DOMAIN futures : futures[i] = Running => futures'[i] = Running
    <3>1. CASE futures' = futures
      BY <3>1
    <3>2. CASE futures' = Append(futures, Queued)
      BY <1>0, <3>2, SpecsType
    <3> QED
      BY <1>0, <1>7, <3>1, <3>2, CallerSteps
  <2> QED
    BY <1>1, <2>1, <2>2
<1>8. CASE UNCHANGED vars
  BY <1>1, <1>8 DEF vars
<1> QED
  BY <1>5, <1>6, <1>7, <1>8, Zenon DEF Next

LEMMA Invariant == Spec => []IInv
<1>1. IInv /\ [Next]_vars => IInv'
  BY TypeStep, CauseStep, WorkersStep, OwnStep, CollectedStep DEF IInv, DataInv
<1> QED
  BY <1>1, InitInvariant, PTL DEF Spec

\* Types; in particular a worker is at a future that exists, and the files hold whole frames
\* of specs of the sweep, or torn ones.
THEOREM TypeCorrect == Spec => []TypeOK
<1>1. IInv => TypeOK
  BY DEF IInv
<1> QED
  BY <1>1, Invariant, PTL

\* "Isolate any per-run failure": only a worker's death or a spec without a key ends a sweep
\* in an exception, on every backend and however many runs fail.
THEOREM OnlyDeathsAndKeysAbort == Spec => []AbortHasACause
<1>1. IInv => AbortHasACause
  BY DEF IInv, DataInv, RaisesHaveACause, Cause, AbortHasACause
<1> QED
  BY <1>1, Invariant, PTL

-----------------------------------------------------------------------------
(* What a sweep promises *)

\* The promise reads specs as the sweep does.
LEMMA SameSpecs ==
  ASSUME NEW spec
  PROVE  /\ Promise!Key(spec) = Key(spec)
         /\ Promise!HasKey(spec) <=> HasKey(spec)
         /\ Promise!Builds(spec) <=> Builds(spec)
<1>1. \A value : Promise!Canonical(value) = Canonical(value) /\ (Promise!Serialisable(value) <=> Serialisable(value))
  BY DEF Promise!Canonical, Canonical, Promise!Serialisable, Serialisable
<1> QED
  BY <1>1 DEF Promise!Key, Key, Promise!HasKey, HasKey, Promise!Builds, Builds

\* A successful outcome without its artifact.
LEMMA WithoutArtifact ==
  ASSUME NEW key, NEW spec, NEW ok, NEW stats, NEW artifact
  PROVE  Told([key |-> key, spec |-> spec, ok |-> ok, stats |-> stats, artifact |-> artifact])
           = [key |-> key, spec |-> spec, ok |-> ok, stats |-> stats]
<1> DEFINE o == [key |-> key, spec |-> spec, ok |-> ok, stats |-> stats, artifact |-> artifact]
           t == [key |-> key, spec |-> spec, ok |-> ok, stats |-> stats]
<1>1. DOMAIN o \ {"artifact"} = {"key", "spec", "ok", "stats"}
  OBVIOUS
<1>2. DOMAIN t = {"key", "spec", "ok", "stats"} /\ t = [f \in {"key", "spec", "ok", "stats"} |-> t[f]]
  OBVIOUS
<1>3. \A f \in {"key", "spec", "ok", "stats"} : o[f] = t[f]
  OBVIOUS
<1>4. Told(o) = [f \in {"key", "spec", "ok", "stats"} |-> o[f]]
  BY <1>1, Zenon DEF Told
<1> HIDE DEF o, t
<1>5. [f \in {"key", "spec", "ok", "stats"} |-> o[f]] = [f \in {"key", "spec", "ok", "stats"} |-> t[f]]
  BY <1>3
<1>6. Told(o) = t
  BY <1>2, <1>4, <1>5
<1> QED
  BY <1>6 DEF o, t

\* The outcome a run leaves is one the promise allows its spec.
LEMMA OutcomeMayCome ==
  ASSUME NEW spec, NEW f \in Finished(spec), f # Failure(spec) => Builds(spec)
  PROVE  Told(f.outcome) \in Promise!MayCome(spec)
<1>1. CASE f = Failure(spec)
  <2>1. f.outcome = [key |-> Key(spec), spec |-> spec, ok |-> FALSE]
    BY <1>1 DEF Failure, Done
  <2>2. DOMAIN f.outcome \ {"artifact"} = {"key", "spec", "ok"}
    BY <2>1
  <2>3. Told(f.outcome) = [key |-> Key(spec), spec |-> spec, ok |-> FALSE]
    BY <2>1, <2>2 DEF Told
  <2> QED
    BY <2>3, SameSpecs, Zenon DEF Promise!MayCome, Promise!Failure
<1>2. CASE f # Failure(spec)
  <2>1. PICK path : f = Done(Success(spec, path))
    BY <1>2, Zenon DEF Finished
  <2>2. f.outcome = [key |-> Key(spec), spec |-> spec, ok |-> TRUE, stats |-> Sharpe(spec), artifact |-> path]
    BY <2>1 DEF Done, Success
  <2>3. Told(f.outcome) = [key |-> Key(spec), spec |-> spec, ok |-> TRUE, stats |-> Sharpe(spec)]
    <3>1. Told([key |-> Key(spec), spec |-> spec, ok |-> TRUE, stats |-> Sharpe(spec), artifact |-> path])
            = [key |-> Key(spec), spec |-> spec, ok |-> TRUE, stats |-> Sharpe(spec)]
      BY WithoutArtifact
    <3> QED
      BY <2>2, <3>1, Zenon
  <2>4. Told(f.outcome) = Promise!Success(spec) /\ Promise!Builds(spec)
    BY <1>2, <2>3, SameSpecs, Zenon DEF Promise!Success
  <2> QED
    BY <2>4, Zenon DEF Promise!MayCome
<1> QED
  BY <1>1, <1>2

\* Collecting as many distinct results as there are specs collects every spec's.
LEMMA AllInIsEverySpec ==
  ASSUME IInv, AllIn
  PROVE  /\ DOMAIN collected = DOMAIN specs /\ collected \in [DOMAIN specs -> DOMAIN specs]
         /\ \A i \in DOMAIN specs : \E k \in DOMAIN specs : collected[k] = i
<1>1. /\ DOMAIN specs = 1 .. Len(specs) /\ Len(specs) \in Nat /\ DOMAIN futures \subseteq DOMAIN specs
      /\ collected \in Seq(DOMAIN futures)
  BY SpecsType DEF IInv, TypeOK
<1>2. DOMAIN collected = DOMAIN specs /\ collected \in [DOMAIN specs -> DOMAIN specs]
  BY <1>1 DEF AllIn
<1>3. collected \in Injection(DOMAIN specs, DOMAIN specs)
  BY <1>2, Zenon DEF Injection, IsInjective, IInv, DataInv, CollectedAreDone
<1>4. IsFiniteSet(DOMAIN specs)
  BY <1>1, FS_Interval
<1>5. collected \in Surjection(DOMAIN specs, DOMAIN specs)
  BY <1>3, <1>4, FS_Injection, Zenon
<1> QED
  BY <1>2, <1>5, Zenon DEF Surjection

\* A result the caller has is one its spec may give.
LEMMA CollectedMayCome ==
  ASSUME IInv, NEW k \in DOMAIN collected
  PROVE  /\ Told(outcomes[k]) \in Promise!MayCome(specs[collected[k]])
         /\ HasKey(specs[collected[k]])
<1>1. collected[k] \in DOMAIN futures /\ futures[collected[k]] \notin {Queued, Running, Raised}
  BY DEF IInv, DataInv, TypeOK, CollectedAreDone
<1>2. /\ futures[collected[k]] \in Finished(specs[collected[k]]) /\ HasKey(specs[collected[k]])
      /\ futures[collected[k]] # Failure(specs[collected[k]]) => Builds(specs[collected[k]])
  BY <1>1, Zenon DEF IInv, DataInv, FuturesAreOwn
<1>3. outcomes[k] = futures[collected[k]].outcome
  BY DEF outcomes
<1> QED
  BY <1>2, <1>3, OutcomeMayCome

\* The caller's return is the promised one.
LEMMA ReturnKeepsPromise ==
  ASSUME IInv, AllIn, told.state = "running", specs' = specs,
         told' = [state |-> "returned", outcomes |-> [k \in DOMAIN collected |-> Told(outcomes[k])]]
  PROVE  Promise!Return
<1> DEFINE came == [k \in DOMAIN collected |-> Told(outcomes[k])]
<1>1. DOMAIN came = DOMAIN specs /\ \A k \in DOMAIN specs : came[k] = Told(outcomes[k])
  BY AllInIsEverySpec
<1>2. told'.state = "returned" /\ told'.outcomes = came /\ told' = [state |-> "returned", outcomes |-> told'.outcomes]
  OBVIOUS
<1> HIDE DEF came
<1>3. \A i \in DOMAIN specs : HasKey(specs[i])
  BY AllInIsEverySpec, CollectedMayCome
<1>4. \A k \in DOMAIN specs : came[k] \in Promise!MayCome(specs[collected[k]])
  BY <1>1, AllInIsEverySpec, CollectedMayCome
<1>5. collected \in Promise!Orders
  BY AllInIsEverySpec, Zenon DEF Promise!Orders, IInv, DataInv, CollectedAreDone
<1>6. \A i \in DOMAIN specs : Promise!HasKey(specs[i])
  BY <1>3, SameSpecs
<1> QED
  BY <1>1, <1>2, <1>4, <1>5, <1>6, Zenon DEF Promise!Return, Promise!Report

\* Every step of a sweep leaves what its caller gets alone, or is the promised step.
LEMMA PromiseStep ==
  ASSUME IInv, [Next]_vars
  PROVE  [Promise!Next]_<<specs, told>>
<1>0. /\ TypeOK /\ specs' = specs /\ CollectedAreDone /\ collected \in Seq(DOMAIN futures)
  BY FutureSteps DEF IInv, DataInv, TypeOK
<1>1. CASE phase' = phase /\ phase # "returned"
  BY <1>0, <1>1 DEF told
<1>2. CASE phase' = phase /\ phase = "returned"
  <2>1. collected' = collected
    <3>1. Caller => collected' = collected
      BY <1>0, <1>2, CallerSteps
    <3>2. \A w \in Workers : Works(w) \/ WorkerDies(w) => collected' = collected
      BY <1>0, WorkSteps, AfterDeath
    <3> QED
      BY <3>1, <3>2 DEF Next, vars
  <2>2. \A k \in DOMAIN collected : futures'[collected[k]] = futures[collected[k]]
    <3> TAKE k \in DOMAIN collected
    <3>1. collected[k] \in DOMAIN futures /\ futures[collected[k]] \notin {Queued, Running, Raised}
      BY <1>0 DEF CollectedAreDone
    <3> QED
      BY <3>1, FutureSteps
  <2>3. outcomes' = outcomes
    BY <2>1, <2>2 DEF outcomes
  <2>4. told' = told
    BY <1>2, <2>1, <2>3 DEF told
  <2> QED
    BY <1>0, <2>4
<1>3. CASE phase' # phase
  <2>1. Caller
    <3>1. \A w \in Workers : ~ Works(w) /\ ~ WorkerDies(w)
      BY <1>0, <1>3, WorkSteps, AfterDeath
    <3>2. ~ UNCHANGED vars
      BY <1>3 DEF vars
    <3> QED
      BY <3>1, <3>2, Zenon DEF Next
  <2>2. /\ phase \in {"submit", "collect", "closing"} /\ UNCHANGED <<futures, collected>>
        /\ phase' \in {"collect", "closing", "raised"} \/ (phase' = "returned" /\ AllIn)
    BY <1>0, <1>3, <2>1, CallerSteps
  <2>3. told = [state |-> "running"] /\ told.state = "running"
    BY <2>2 DEF told
  <2>4. CASE phase' \in {"collect", "closing"}
    BY <1>0, <2>3, <2>4 DEF told
  <2>5. CASE phase' = "raised"
    <3>1. told' = [state |-> "raised"]
      BY <2>5 DEF told
    <3> QED
      BY <1>0, <2>3, <3>1 DEF Promise!Next, Promise!Raise, Promise!Exception, Promise!NoReport
  <2>6. CASE phase' = "returned" /\ AllIn
    <3>1. outcomes' = outcomes
      BY <2>2 DEF outcomes
    <3>2. told' = [state |-> "returned", outcomes |-> [k \in DOMAIN collected |-> Told(outcomes[k])]]
      BY <2>2, <2>6, <3>1 DEF told
    <3>3. Promise!Return
      BY <1>0, <2>3, <2>6, <3>2, ReturnKeepsPromise
    <3> QED
      BY <1>0, <2>3, <3>3 DEF Promise!Next, Promise!NoReport
  <2> QED
    BY <2>2, <2>4, <2>5, <2>6
<1> QED
  BY <1>1, <1>2, <1>3

\* Whatever backend maps the sweep, workers dying included, its caller gets one outcome per
\* spec, each one that spec may give, or an exception.
THEOREM SweepKeepsPromise == Spec => ImplementsPromise
<1>1. Init => Promise!Init
  BY DEF Init, Promise!Init, told, Promise!NoReport
<1>2. IInv /\ [Next]_vars => [Promise!Next]_<<specs, told>>
  BY PromiseStep
<1> QED
  BY <1>1, <1>2, Invariant, PTL DEF Spec, ImplementsPromise, Promise!Spec
-----------------------------------------------------------------------------
(* The files a report names *)

Bare(i) == futures[i] = Done(Success(specs[i], NoArtifact))
Saved(i) == futures[i] = Done(Success(specs[i], ArtifactOf(specs[i])))

\* A file that does not hold the run it is named after is still owed by a run of that
\* name: one queued, running, raised or failed.  Success with a file is for sweeps that
\* keep artifacts, success without for those that do not.
FilesInv ==
  /\ \A w \in Workers : workers[w].step \in {"open", "close"} => artifacts
  /\ \A i \in DOMAIN futures :
       /\ Saved(i) => artifacts /\ ArtifactOf(specs[i]) \in DOMAIN files
       /\ Bare(i) => ~ artifacts
  /\ \A p \in DOMAIN files :
       files[p] = p \/ \E i \in DOMAIN futures : ArtifactOf(specs[i]) = p /\ ~ Saved(i)

\* What success with a file is not.
LEMMA OutcomesDiffer ==
  ASSUME NEW spec
  PROVE  /\ Done(Success(spec, NoArtifact)) \notin {Queued, Running, Raised, Failure(spec)}
         /\ Done(Success(spec, ArtifactOf(spec))) \notin {Queued, Running, Raised, Failure(spec)}
         /\ Done(Success(spec, ArtifactOf(spec))) # Done(Success(spec, NoArtifact))
<1>1. ASSUME NEW path
      PROVE  /\ Done(Success(spec, path)) \notin {Queued, Running, Raised}
             /\ Done(Success(spec, path)).outcome.ok
             /\ Done(Success(spec, path)).outcome.artifact = path
  BY DEF Done, Success, Queued, Running, Raised
<1>2. ~ Failure(spec).outcome.ok
  BY DEF Failure, Done
<1>3. NoArtifact # ArtifactOf(spec)
  BY DEF NoArtifact, ArtifactOf, Key
<1> QED
  BY <1>1, <1>2, <1>3

\* A step that leaves the files alone and ends no run with a file in it.
LEMMA FilesFrom ==
  ASSUME FilesInv, UNCHANGED <<specs, artifacts, files>>,
         \A w \in Workers : workers'[w].step \in {"open", "close"} => artifacts,
         DOMAIN futures \subseteq DOMAIN futures',
         \A i \in DOMAIN futures' :
           \/ i \in DOMAIN futures /\ futures'[i] = futures[i]
           \/ futures'[i] \in {Queued, Running, Raised, Failure(specs[i])}
           \/ ~ artifacts /\ futures'[i] = Done(Success(specs[i], NoArtifact))
  PROVE  FilesInv'
<1>1. ASSUME NEW i \in DOMAIN futures'
      PROVE  /\ futures'[i] = Done(Success(specs[i], ArtifactOf(specs[i]))) =>
                  i \in DOMAIN futures /\ Saved(i)
             /\ futures'[i] = Done(Success(specs[i], NoArtifact)) => ~ artifacts
  BY OutcomesDiffer DEF FilesInv, Saved, Bare
<1>2. ASSUME NEW p \in DOMAIN files, files[p] # p
      PROVE  \E i \in DOMAIN futures' :
               /\ ArtifactOf(specs[i]) = p
               /\ futures'[i] # Done(Success(specs[i], ArtifactOf(specs[i])))
  BY <1>1, <1>2, Zenon DEF FilesInv
<1>3. \A w \in Workers : workers'[w].step \in {"open", "close"} => artifacts'
  OBVIOUS
<1>4. \A i \in DOMAIN futures' :
        /\ Saved(i)' => artifacts' /\ ArtifactOf(specs'[i]) \in DOMAIN files'
        /\ Bare(i)' => ~ artifacts'
  BY <1>1 DEF FilesInv, Saved, Bare
<1>5. \A p \in DOMAIN files' :
        files'[p] = p \/ \E i \in DOMAIN futures' : ArtifactOf(specs'[i]) = p /\ ~ Saved(i)'
  BY <1>2 DEF Saved
<1> QED
  BY <1>3, <1>4, <1>5 DEF FilesInv

LEMMA InitFilesInv == Init => FilesInv
<1> SUFFICES ASSUME Init PROVE FilesInv
  OBVIOUS
<1>1. files = <<>> /\ \A w \in Workers : workers[w] = Idle
  BY DEF Init
<1>2. \A i \in DOMAIN futures : futures[i] = Queued
  BY DEF Init
<1>3. Idle.step \notin {"open", "close"} /\ DOMAIN files = {}
  BY <1>1 DEF Idle
<1> QED
  BY <1>1, <1>2, <1>3, OutcomesDiffer DEF FilesInv, Saved, Bare

\* A run opens its file: the file is owed by that run.
LEMMA OpenKeepsFiles ==
  ASSUME IInv, FilesInv, NEW w \in Workers, OpenArtifact(w)
  PROVE  FilesInv'
<1> DEFINE j == workers[w].task
<1> DEFINE path == ArtifactOf(specs[j])
<1>1. /\ workers[w].step = "open" /\ workers' = [workers EXCEPT ![w].step = "close"]
      /\ files' = [p \in DOMAIN files \cup {path} |-> IF p = path THEN Torn ELSE files[p]]
      /\ specs' = specs /\ artifacts' = artifacts /\ futures' = futures
  BY DEF OpenArtifact, Put, SpecOf
<1>2. j \in DOMAIN futures /\ futures[j] = Running
  BY <1>1, StepNotIdle, WorkersNow
<1>3. artifacts /\ \A v \in Workers : workers'[v].step \in {"open", "close"} => artifacts'
  BY <1>1 DEF FilesInv
<1> HIDE DEF j
<1>4. ~ Saved(j)
  BY <1>2, OutcomesDiffer DEF Saved
<1> HIDE DEF path
<1>5. /\ DOMAIN files \subseteq DOMAIN files'
      /\ \A p \in DOMAIN files' : p = path \/ (p \in DOMAIN files /\ files'[p] = files[p])
  BY <1>1
<1>6. \A i \in DOMAIN futures' :
        /\ Saved(i)' => artifacts' /\ ArtifactOf(specs'[i]) \in DOMAIN files'
        /\ Bare(i)' => ~ artifacts'
  BY <1>1, <1>5, Zenon DEF FilesInv, Saved, Bare
<1>7. \A p \in DOMAIN files' :
        files'[p] = p \/ \E i \in DOMAIN futures' : ArtifactOf(specs'[i]) = p /\ ~ Saved(i)'
  BY <1>1, <1>2, <1>4, <1>5, Zenon DEF FilesInv, Saved, path
<1> QED
  BY <1>3, <1>6, <1>7 DEF FilesInv

\* A run closes its file and succeeds: the file is whole, or another run still writing it
\* owes it.
LEMMA CloseKeepsFiles ==
  ASSUME IInv, FilesInv, NEW w \in Workers, CloseArtifact(w)
  PROVE  FilesInv'
<1> DEFINE j == workers[w].task
<1> DEFINE path == ArtifactOf(specs[j])
<1> DEFINE saved == Done(Success(specs[j], path))
<1>1. /\ workers[w].step = "close" /\ workers' = [workers EXCEPT ![w] = Idle]
      /\ futures' = [futures EXCEPT ![j] = saved]
      /\ specs' = specs /\ artifacts' = artifacts
      /\ \E content : /\ files' = [p \in DOMAIN files \cup {path} |->
                                     IF p = path THEN content ELSE files[p]]
                      /\ content = path \/ Writers(path) # {w}
  BY Zenon DEF CloseArtifact, Finishes, Put, SpecOf, ArtifactOf
<1>2. TypeOK /\ workers[w] # Idle /\ j \in DOMAIN futures /\ futures[j] = Running
  BY <1>1, StepNotIdle, WorkersNow DEF IInv
<1>3. artifacts /\ \A v \in Workers : workers'[v].step \in {"open", "close"} => artifacts'
  BY <1>1 DEF FilesInv, Idle
<1>4. \A i \in DOMAIN futures : futures'[i] = IF i = j THEN saved ELSE futures[i]
  BY <1>1
<1>5. DOMAIN futures' = DOMAIN futures
  BY <1>1
<1>6. w \in Writers(path)
  BY <1>1 DEF Writers, SpecOf
<1>7. Writers(path) # {w} =>
        \E i \in DOMAIN futures : i # j /\ ArtifactOf(specs[i]) = path /\ futures[i] = Running
  <2>1. SUFFICES ASSUME NEW v \in Writers(path), v # w
                 PROVE  \E i \in DOMAIN futures :
                          i # j /\ ArtifactOf(specs[i]) = path /\ futures[i] = Running
    BY <1>6
  <2>2. v \in Workers /\ workers[v].step = "close" /\ ArtifactOf(specs[workers[v].task]) = path
    BY <2>1 DEF Writers, SpecOf
  <2>3. workers[v] # Idle
    BY <2>2, StepNotIdle
  <2>4. /\ workers[v].task \in DOMAIN futures /\ futures[workers[v].task] = Running
        /\ workers[v].task # j
    BY <1>2, <2>1, <2>2, <2>3, WorkersNow
  <2> QED
    BY <2>2, <2>4
<1> HIDE DEF path, saved
<1>8. /\ DOMAIN files \subseteq DOMAIN files' /\ path \in DOMAIN files'
      /\ \A p \in DOMAIN files' : p = path \/ (p \in DOMAIN files /\ files'[p] = files[p])
      /\ files'[path] = path \/ Writers(path) # {w}
  BY <1>1
<1>9. saved # Done(Success(specs[j], NoArtifact))
  BY OutcomesDiffer DEF saved, path
<1> HIDE DEF j
<1>10. \A i \in DOMAIN futures' :
         /\ Saved(i)' => artifacts' /\ ArtifactOf(specs'[i]) \in DOMAIN files'
         /\ Bare(i)' => ~ artifacts'
  <2>1. ASSUME NEW i \in DOMAIN futures, i # j
        PROVE  /\ Saved(i)' => artifacts' /\ ArtifactOf(specs'[i]) \in DOMAIN files'
               /\ Bare(i)' => ~ artifacts'
    BY <1>1, <1>4, <1>8, <2>1, Zenon DEF FilesInv, Saved, Bare
  <2>2. ASSUME NEW i \in DOMAIN futures, i = j
        PROVE  /\ Saved(i)' => artifacts' /\ ArtifactOf(specs'[i]) \in DOMAIN files'
               /\ Bare(i)' => ~ artifacts'
    <3>1. futures'[i] = saved /\ specs' = specs /\ artifacts' /\ path \in DOMAIN files'
      BY <1>1, <1>3, <1>4, <1>8, <2>2
    <3>2. futures'[i] # Done(Success(specs'[i], NoArtifact)) /\ ArtifactOf(specs'[i]) = path
      BY <1>9, <2>2, <3>1 DEF path
    <3> QED
      BY <3>1, <3>2 DEF Bare
  <2> QED
    BY <1>5, <2>1, <2>2
<1>11. ASSUME NEW p \in DOMAIN files', files'[p] # p
       PROVE  \E i \in DOMAIN futures' : ArtifactOf(specs'[i]) = p /\ ~ Saved(i)'
  <2>1. \E i \in DOMAIN futures : i # j /\ ArtifactOf(specs[i]) = p /\ ~ Saved(i)
    <3>1. CASE p = path
      <4>1. PICK i \in DOMAIN futures : i # j /\ ArtifactOf(specs[i]) = path /\ futures[i] = Running
        BY <1>7, <1>8, <1>11, <3>1
      <4>2. ~ Saved(i)
        BY <4>1, OutcomesDiffer DEF Saved
      <4> QED
        BY <3>1, <4>1, <4>2
    <3>2. CASE p # path
      <4>1. PICK i \in DOMAIN futures : ArtifactOf(specs[i]) = p /\ ~ Saved(i)
        <5>1. p \in DOMAIN files /\ files[p] # p
          BY <1>8, <1>11, <3>2
        <5> QED
          BY <5>1, Zenon DEF FilesInv
      <4> QED
        BY <3>2, <4>1 DEF path
    <3> QED
      BY <3>1, <3>2
  <2> QED
    BY <1>1, <1>4, <1>5, <2>1, Zenon DEF Saved
<1> QED
  BY <1>3, <1>10, <1>11 DEF FilesInv
\* Every step of a sweep keeps a wrong file owed.
LEMMA FilesStep ==
  ASSUME IInv, FilesInv, [Next]_vars
  PROVE  FilesInv'
<1>0. /\ TypeOK /\ DOMAIN workers = Workers /\ futures \in Seq(FutureStates)
      /\ Len(futures) \in Nat /\ DOMAIN futures = 1 .. Len(futures)
  BY SpecsType DEF IInv, TypeOK, FutureStates
<1>1. ASSUME NEW w \in Workers, Take(w)
      PROVE  FilesInv'
  <2>1. UNCHANGED <<specs, artifacts, files>>
    BY <1>1 DEF Take
  <2>2. PICK i \in DOMAIN futures :
          \/ /\ futures' = [futures EXCEPT ![i] = Running]
             /\ workers' = [workers EXCEPT ![w] = [step |-> "engine", task |-> i]]
          \/ futures' = [futures EXCEPT ![i] = Raised] /\ UNCHANGED workers
    BY <1>1, Zenon DEF Take
  <2>3. \A v \in Workers : workers'[v].step \in {"open", "close"} => artifacts
    BY <1>0, <2>2 DEF FilesInv
  <2>4. /\ DOMAIN futures' = DOMAIN futures
        /\ \A k \in DOMAIN futures : futures'[k] = futures[k] \/ futures'[k] \in {Running, Raised}
    BY <2>2
  <2> QED
    BY <2>1, <2>3, <2>4, FilesFrom
<1>2. ASSUME NEW w \in Workers, RunEngine(w)
      PROVE  FilesInv'
  <2> DEFINE j == workers[w].task
  <2>1. UNCHANGED <<specs, artifacts, files>>
    BY <1>2 DEF RunEngine, Finishes
  <2>2. \/ /\ ~ artifacts /\ workers' = [workers EXCEPT ![w] = Idle]
           /\ futures' = [futures EXCEPT ![j] = Done(Success(specs[j], NoArtifact))]
        \/ artifacts /\ workers' = [workers EXCEPT ![w].step = "open"] /\ UNCHANGED futures
    BY <1>2, Zenon DEF RunEngine, Finishes, SpecOf
  <2>3. \A v \in Workers : workers'[v].step \in {"open", "close"} => artifacts
    BY <1>0, <2>2 DEF FilesInv, Idle
  <2> HIDE DEF j
  <2>4. /\ DOMAIN futures' = DOMAIN futures
        /\ \A k \in DOMAIN futures :
             \/ futures'[k] = futures[k]
             \/ ~ artifacts /\ futures'[k] = Done(Success(specs[k], NoArtifact))
    BY <2>2
  <2> QED
    BY <2>1, <2>3, <2>4, FilesFrom
<1>3. ASSUME NEW w \in Workers, RunFails(w)
      PROVE  FilesInv'
  <2> DEFINE j == workers[w].task
  <2>1. UNCHANGED <<specs, artifacts, files>>
    BY <1>3 DEF RunFails, Finishes
  <2>2. workers' = [workers EXCEPT ![w] = Idle] /\ futures' = [futures EXCEPT ![j] = Failure(specs[j])]
    BY <1>3, Zenon DEF RunFails, Finishes, SpecOf
  <2>3. \A v \in Workers : workers'[v].step \in {"open", "close"} => artifacts
    BY <1>0, <2>2 DEF FilesInv, Idle
  <2> HIDE DEF j
  <2>4. /\ DOMAIN futures' = DOMAIN futures
        /\ \A k \in DOMAIN futures : futures'[k] = futures[k] \/ futures'[k] = Failure(specs[k])
    BY <2>2
  <2> QED
    BY <2>1, <2>3, <2>4, FilesFrom
<1>4. ASSUME NEW w \in Workers, WorkerDies(w)
      PROVE  FilesInv'
  <2>1. UNCHANGED <<specs, artifacts, files>> /\ DOMAIN futures' = DOMAIN futures
    BY <1>0, <1>4, AfterDeath
  <2>2. \A v \in Workers : workers'[v].step \in {"open", "close"} => artifacts
    <3>1. \A v \in Workers : workers'[v] = Idle \/ workers'[v] = workers[v]
      BY <1>0, <1>4, AfterDeath
    <3> QED
      BY <3>1 DEF FilesInv, Idle
  <2>3. \A k \in DOMAIN futures : futures'[k] = futures[k] \/ futures'[k] \in {Queued, Raised}
    BY <1>0, <1>4, AfterDeath
  <2> QED
    BY <2>1, <2>2, <2>3, FilesFrom
<1>5. ASSUME Caller
      PROVE  FilesInv'
  <2>1. UNCHANGED <<specs, artifacts, workers, files>>
        /\ (futures' = Append(futures, Queued) \/ UNCHANGED futures)
    BY <1>0, <1>5, CallerSteps
  <2>2. /\ DOMAIN futures \subseteq DOMAIN futures'
        /\ \A k \in DOMAIN futures' : (k \in DOMAIN futures /\ futures'[k] = futures[k]) \/ futures'[k] = Queued
    <3>1. CASE futures' = Append(futures, Queued)
      <4>1. /\ DOMAIN futures' = 1 .. (Len(futures) + 1)
            /\ \A k \in 1 .. (Len(futures) + 1) :
                 futures'[k] = IF k <= Len(futures) THEN futures[k] ELSE Queued
        BY <1>0, <3>1
      <4> QED
        BY <1>0, <4>1
    <3> QED
      BY <2>1, <3>1
  <2> QED
    BY <2>1, <2>2, FilesFrom DEF FilesInv
<1>6. ASSUME UNCHANGED vars
      PROVE  FilesInv'
  BY <1>6, FilesFrom DEF vars, FilesInv
<1> QED
  BY <1>1, <1>2, <1>3, <1>4, <1>5, <1>6, OpenKeepsFiles, CloseKeepsFiles, Zenon DEF Next, Works

\* Once every result is in, what a wrong file is owed is a failure of its name.
LEMMA OwedByAFailure ==
  ASSUME IInv, FilesInv, AllIn
  PROVE  ArtifactsAreWhole
<1>1. /\ DOMAIN futures \subseteq DOMAIN specs /\ collected \in Seq(DOMAIN futures)
      /\ \A k \in DOMAIN collected : collected[k] \in DOMAIN futures
  BY SpecsType DEF IInv, TypeOK
<1>2. ASSUME NEW k \in DOMAIN collected
      PROVE  /\ outcomes[k] = futures[collected[k]].outcome
             /\ futures[collected[k]] \in Finished(specs[collected[k]])
  BY <1>1, Zenon DEF outcomes, IInv, DataInv, CollectedAreDone, FuturesAreOwn
<1>3. \A i \in DOMAIN futures : \E k \in DOMAIN collected : collected[k] = i
  BY <1>1, AllInIsEverySpec
<1>4. ASSUME NEW k \in DOMAIN collected, outcomes[k].ok, outcomes[k].artifact # NoArtifact
      PROVE  /\ Saved(collected[k])
             /\ outcomes[k].artifact = ArtifactOf(specs[collected[k]])
             /\ outcomes[k].key = ArtifactOf(specs[collected[k]])
  <2> DEFINE spec == specs[collected[k]]
  <2>1. ~ Failure(spec).outcome.ok
    BY DEF Failure, Done
  <2>2. futures[collected[k]] \in {Done(Success(spec, path)) : path \in {NoArtifact, ArtifactOf(spec)}}
    BY <1>2, <1>4, <2>1 DEF Finished
  <2>3. ASSUME NEW path
        PROVE  /\ Done(Success(spec, path)).outcome.artifact = path
               /\ Done(Success(spec, path)).outcome.key = Key(spec)
    BY DEF Done, Success
  <2> HIDE DEF spec
  <2>4. futures[collected[k]] = Done(Success(spec, ArtifactOf(spec)))
    BY <1>2, <1>4, <2>2, <2>3
  <2>5. outcomes[k].artifact = ArtifactOf(spec) /\ outcomes[k].key = Key(spec)
    BY <1>2, <2>3, <2>4
  <2> QED
    BY <2>4, <2>5 DEF Saved, ArtifactOf, spec
<1>5. ASSUME NEW k \in DOMAIN collected, ~ Saved(collected[k]), artifacts
      PROVE  ~ outcomes[k].ok /\ outcomes[k].key = ArtifactOf(specs[collected[k]])
  <2>1. futures[collected[k]] = Failure(specs[collected[k]])
    BY <1>1, <1>2, <1>5 DEF FilesInv, Finished, Saved, Bare
  <2> QED
    BY <1>2, <2>1 DEF Failure, Done, ArtifactOf
<1>6. ASSUME NEW k \in DOMAIN collected, outcomes[k].ok, outcomes[k].artifact # NoArtifact
      PROVE  \/ files[outcomes[k].artifact] = outcomes[k].key
             \/ \E l \in DOMAIN collected : ~ outcomes[l].ok /\ outcomes[l].key = outcomes[k].key
  <2> DEFINE p == ArtifactOf(specs[collected[k]])
  <2>1. Saved(collected[k]) /\ outcomes[k].artifact = p /\ outcomes[k].key = p
    BY <1>4, <1>6
  <2>2. artifacts /\ p \in DOMAIN files
    BY <1>1, <2>1 DEF FilesInv
  <2> HIDE DEF p
  <2>3. CASE files[p] # p
    <3>1. PICK i \in DOMAIN futures : ArtifactOf(specs[i]) = p /\ ~ Saved(i)
      BY <2>2, <2>3, Zenon DEF FilesInv
    <3>2. PICK l \in DOMAIN collected : collected[l] = i
      BY <1>3
    <3> QED
      BY <1>5, <2>1, <2>2, <3>1, <3>2
  <2> QED
    BY <2>1, <2>3
<1>7. DOMAIN outcomes = DOMAIN collected /\ ToSet(outcomes) = {outcomes[k] : k \in DOMAIN collected}
  BY DEF outcomes, ToSet
<1> QED
  BY <1>6, <1>7, Zenon DEF ArtifactsAreWhole

\* A report names only files that hold the run it names them for, whole, however many
\* workers wrote the same file at once, unless a run of the very same content failed.
THEOREM ReportsNameWholeFiles == Spec => []ArtifactsAreWhole
<1>1. IInv /\ FilesInv /\ [Next]_vars => FilesInv'
  BY FilesStep
<1>2. IInv /\ FilesInv => ArtifactsAreWhole
  <2>1. IInv /\ phase = "returned" => AllIn
    BY DEF IInv, DataInv, CollectedAreDone
  <2> QED
    BY <2>1, OwedByAFailure DEF ArtifactsAreWhole
<1> QED
  BY <1>1, <1>2, InitFilesInv, Invariant, PTL DEF Spec
-----------------------------------------------------------------------------
(* The best of a report *)

\* A non-empty set of naturals has a least element.
LEMMA LeastNatural ==
  ASSUME NEW T, T \subseteq Nat, T # {}
  PROVE  \E x \in T : \A y \in T : x <= y
<1>1. IsWellFoundedOn(OpToRel(<, Nat), Nat)
  BY NatLessThanWellFounded
<1>2. PICK x \in T : \A y \in T : ~ (<<y, x>> \in OpToRel(<, Nat))
  BY <1>1, WFMin, Zenon
<1>3. OpToRel(<, Nat) = {pair \in Nat \X Nat : pair[1] < pair[2]}
  BY Zenon DEF OpToRel
<1>4. \A y \in T : y < x => <<y, x>> \in OpToRel(<, Nat)
  BY <1>3
<1>5. \A y \in T : ~ (y < x)
  BY <1>2, <1>4, Zenon
<1> QED
  BY <1>5

\* Of the numbers up to n, a set with n in it has n for its maximum.
LEMMA MaxIsTop ==
  ASSUME NEW n \in Nat, NEW S \in SUBSET (1 .. n), n \in S
  PROVE  Max(S) = n
<1>1. n \in S /\ \A y \in S : n >= y
  OBVIOUS
<1>2. \A x \in S : (\A y \in S : x >= y) => x = n
  OBVIOUS
<1>3. Max(S) \in S /\ \A y \in S : Max(S) >= y
  BY <1>1, Zenon DEF Max
<1> QED
  BY <1>2, <1>3

\* g is what FoldLeft computes of a report on every set of its first n places.
IsBestOf(g, report, n) ==
  g = [S \in SUBSET (1 .. n) |->
         IF S = {} THEN NoBest ELSE Better(g[S \ {Max(S)}], report[Max(S)])]

\* There is such a function, for a report of any length.
LEMMA BestOfExists ==
  ASSUME NEW n \in Nat, NEW report
  PROVE  \E g : IsBestOf(g, report, n)
<1> DEFINE Bad == {m \in Nat : ~ \E g : IsBestOf(g, report, m)}
<1>1. SUFFICES ASSUME Bad # {} PROVE FALSE
  OBVIOUS
<1>2. PICK m \in Bad : \A k \in Bad : m <= k
  BY <1>1, LeastNatural
<1>3. m \in Nat /\ ~ \E g : IsBestOf(g, report, m)
  BY <1>2
<1>4. m # 0
  <2>1. SUFFICES ASSUME m = 0 PROVE FALSE
    OBVIOUS
  <2> DEFINE g == [S \in SUBSET (1 .. 0) |-> NoBest]
  <2>2. \A S \in SUBSET (1 .. 0) : S = {}
    OBVIOUS
  <2>3. IsBestOf(g, report, 0)
    BY <2>2 DEF IsBestOf
  <2> QED
    BY <1>3, <2>1, <2>3
<1>5. m - 1 \in Nat /\ m - 1 \notin Bad
  BY <1>2, <1>3, <1>4
<1>6. PICK h : IsBestOf(h, report, m - 1)
  BY <1>5
<1> DEFINE g == [S \in SUBSET (1 .. m) |->
                   IF m \in S THEN Better(h[S \ {m}], report[m]) ELSE h[S]]
<1>7. ASSUME NEW S \in SUBSET (1 .. m)
      PROVE  g[S] = IF S = {} THEN NoBest ELSE Better(g[S \ {Max(S)}], report[Max(S)])
  <2>1. CASE m \in S
    <3>1. Max(S) = m
      BY <1>3, <2>1, MaxIsTop
    <3>2. S \ {m} \in SUBSET (1 .. m) /\ m \notin S \ {m}
      OBVIOUS
    <3>3. g[S \ {m}] = h[S \ {m}] /\ g[S] = Better(h[S \ {m}], report[m])
      BY <2>1, <3>2
    <3> HIDE DEF g
    <3> QED
      BY <2>1, <3>1, <3>3
  <2>2. CASE m \notin S
    <3>1. S \in SUBSET (1 .. m - 1)
      BY <1>3, <2>2
    <3>2. h[S] = IF S = {} THEN NoBest ELSE Better(h[S \ {Max(S)}], report[Max(S)])
      BY <1>6, <3>1 DEF IsBestOf
    <3>3. g[S] = h[S]
      BY <2>2
    <3>4. g[S \ {Max(S)}] = h[S \ {Max(S)}]
      BY <2>2
    <3> HIDE DEF g
    <3> QED
      BY <3>2, <3>3, <3>4
  <2> QED
    BY <2>1, <2>2
<1>8. DOMAIN g = SUBSET (1 .. m) /\ g = [S \in DOMAIN g |-> g[S]]
  OBVIOUS
<1> HIDE DEF g
<1>9. IsBestOf(g, report, m)
  BY <1>7, <1>8 DEF IsBestOf
<1> QED
  BY <1>3, <1>9

\* The best of a report comes out of one comparison at each of its places.
LEMMA BestStepByStep ==
  ASSUME NEW n \in Nat, NEW report, DOMAIN report = 1 .. n
  PROVE  \E b : /\ b[0] = NoBest
                /\ \A k \in 1 .. n : b[k] = Better(b[k - 1], report[k])
                /\ Best(report) = b[n]
<1> DEFINE raw(g) == g = [S \in SUBSET DOMAIN report |->
                            IF S = {} THEN NoBest ELSE Better(g[S \ {Max(S)}], report[Max(S)])]
<1>1. Best(report) = (CHOOSE g : raw(g))[DOMAIN report]
  BY DEF Best, FoldLeft, MapThenFoldSet
<1>2. \A g : raw(g) <=> IsBestOf(g, report, n)
  BY DEF IsBestOf
<1> HIDE DEF raw
<1>3. \E g : raw(g)
  BY <1>2, BestOfExists
<1>4. PICK g : g = (CHOOSE h : raw(h)) /\ raw(g)
  BY <1>3, Zenon
<1>5. IsBestOf(g, report, n) /\ Best(report) = g[1 .. n]
  BY <1>1, <1>2, <1>4
<1>6. g[1 .. 0] = NoBest
  <2>1. 1 .. 0 = {}
    OBVIOUS
  <2> QED
    BY <1>5, <2>1 DEF IsBestOf
<1>7. ASSUME NEW k \in 1 .. n
      PROVE  g[1 .. k] = Better(g[1 .. k - 1], report[k])
  <2>1. 1 .. k \in SUBSET (1 .. n) /\ 1 .. k # {} /\ k \in Nat /\ k \in 1 .. k
    OBVIOUS
  <2>2. Max(1 .. k) = k
    BY <2>1, MaxIsTop
  <2>3. (1 .. k) \ {k} = 1 .. k - 1
    OBVIOUS
  <2> QED
    BY <1>5, <2>1, <2>2, <2>3 DEF IsBestOf
<1> DEFINE b == [k \in 0 .. n |-> g[1 .. k]]
<1>8. b[0] = NoBest /\ Best(report) = b[n] /\ \A k \in 1 .. n : b[k] = Better(b[k - 1], report[k])
  BY <1>5, <1>6, <1>7
<1> QED
  BY <1>8

\* Whether place f of a report is its first success.
StartsAt(report, f) == report[f].ok /\ \A k \in 1 .. f - 1 : ~ report[k].ok

\* What the comparisons come to after k places.
BestSoFar(best, report, k) ==
  /\ \/ best = NoBest /\ \A i \in 1 .. k : ~ report[i].ok
     \/ \E i \in 1 .. k : best = report[i] /\ report[i].ok
  /\ \A f \in 1 .. k : StartsAt(report, f) /\ report[f].stats = NaN => best = report[f]
  /\ \A f \in 1 .. k : StartsAt(report, f) /\ report[f].stats # NaN =>
       /\ best.stats # NaN
       /\ \A i \in 1 .. k : report[i].ok => report[i].stats = NaN \/ report[i].stats <= best.stats

LEMMA OneMorePlace ==
  ASSUME NEW report, NEW n \in Nat, NEW k \in 1 .. n, NEW best,
         \A i \in 1 .. n : report[i].ok => report[i].stats \in Int \cup {NaN},
         BestSoFar(best, report, k - 1)
  PROVE  BestSoFar(Better(best, report[k]), report, k)
<1> DEFINE o == report[k]
<1>0. /\ k \in Nat /\ 1 .. k = (1 .. k - 1) \cup {k} /\ k \notin 1 .. k - 1
      /\ NaN \notin Int /\ ~ NoBest.ok
  BY SweepAssumption DEF NoBest
<1>1. CASE ~ o.ok
  BY <1>0, <1>1 DEF BestSoFar, Better, StartsAt
<1>2. CASE o.ok /\ ~ best.ok
  <2>1. Better(best, o) = o /\ \A i \in 1 .. k - 1 : ~ report[i].ok
    BY <1>2 DEF Better, BestSoFar
  <2>2. o.stats # NaN => o.stats \in Int
    BY <1>2
  <2>3. \A i \in 1 .. k : report[i].ok => i = k
    BY <1>0, <2>1
  <2> HIDE DEF o
  <2> QED
    BY <1>0, <1>2, <2>1, <2>2, <2>3 DEF BestSoFar, StartsAt, o
<1>3. CASE o.ok /\ best.ok
  <2>1. PICK j \in 1 .. k - 1 : best = report[j] /\ report[j].ok
    BY <1>0, <1>3 DEF BestSoFar
  <2>2. ASSUME NEW f \in 1 .. k, StartsAt(report, f)
        PROVE  f \in 1 .. k - 1
    BY <1>0, <2>1, <2>2 DEF StartsAt
  <2>3. {o.stats, best.stats} \subseteq Int \cup {NaN}
    <3>1. j \in 1 .. n
      OBVIOUS
    <3> QED
      BY <1>3, <2>1, <3>1
  <2>4. CASE Beats(o, best)
    <3>1. Better(best, o) = o
      BY <1>3, <2>4 DEF Better
    <3>2. o.stats \in Int /\ best.stats \in Int /\ o.stats > best.stats
      BY <1>0, <2>3, <2>4 DEF Beats
    <3>3. ASSUME NEW f \in 1 .. k, StartsAt(report, f), report[f].stats # NaN,
                 NEW i \in 1 .. k, report[i].ok
          PROVE  report[i].stats = NaN \/ report[i].stats <= o.stats
      <4>1. CASE i = k
        BY <3>2, <4>1
      <4>2. CASE i # k
        <5>1. i \in 1 .. k - 1 /\ i \in 1 .. n
          BY <4>2
        <5>2. report[i].stats = NaN \/ report[i].stats <= best.stats
          BY <2>2, <3>3, <5>1 DEF BestSoFar
        <5>3. report[i].stats \in Int \cup {NaN}
          BY <3>3, <5>1
        <5> QED
          BY <3>2, <5>2, <5>3
      <4> QED
        BY <4>1, <4>2
    <3>4. ASSUME NEW f \in 1 .. k, StartsAt(report, f) PROVE report[f].stats # NaN
      BY <1>0, <2>2, <3>2, <3>4 DEF BestSoFar
    <3> HIDE DEF o
    <3> QED
      BY <1>0, <1>3, <3>1, <3>2, <3>3, <3>4 DEF BestSoFar, o
  <2>5. CASE ~ Beats(o, best)
    <3>1. Better(best, o) = best
      BY <1>3, <2>5 DEF Better
    <3>2. best.stats # NaN => o.stats = NaN \/ o.stats <= best.stats
      BY <1>0, <2>3, <2>5 DEF Beats
    <3>3. ASSUME NEW f \in 1 .. k, StartsAt(report, f), report[f].stats # NaN
          PROVE  /\ best.stats # NaN
                 /\ \A i \in 1 .. k - 1 : report[i].ok =>
                      report[i].stats = NaN \/ report[i].stats <= best.stats
      BY <2>2, <3>3 DEF BestSoFar
    <3>4. ASSUME NEW f \in 1 .. k, StartsAt(report, f), report[f].stats = NaN
          PROVE  best = report[f]
      BY <2>2, <3>4 DEF BestSoFar
    <3> QED
      BY <1>0, <2>1, <3>1, <3>2, <3>3, <3>4 DEF BestSoFar
  <2> QED
    BY <2>4, <2>5
<1> QED
  BY <1>1, <1>2, <1>3

\* The best of a report whose numbers compare.
LEMMA BestOfReport ==
  ASSUME NEW report, NEW n \in Nat, DOMAIN report = 1 .. n,
         \A i \in 1 .. n : report[i].ok => report[i].stats \in Int \cup {NaN}
  PROVE  BestSoFar(Best(report), report, n)
<1>1. PICK b : /\ b[0] = NoBest
               /\ \A k \in 1 .. n : b[k] = Better(b[k - 1], report[k])
               /\ Best(report) = b[n]
  BY BestStepByStep
<1> DEFINE Bad == {k \in 0 .. n : ~ BestSoFar(b[k], report, k)}
<1>2. SUFFICES ASSUME Bad # {} PROVE FALSE
  BY <1>1
<1>3. Bad \subseteq Nat
  OBVIOUS
<1>4. PICK m \in Bad : \A k \in Bad : m <= k
  BY <1>2, <1>3, LeastNatural, Zenon
<1>5. m \in 0 .. n /\ ~ BestSoFar(b[m], report, m)
  BY <1>4
<1>6. m # 0
  <2>1. BestSoFar(b[0], report, 0)
    BY <1>1 DEF BestSoFar
  <2> QED
    BY <1>5, <2>1
<1>7. m \in 1 .. n /\ m - 1 \in 0 .. n /\ m - 1 \notin Bad
  BY <1>4, <1>5, <1>6
<1>8. BestSoFar(b[m - 1], report, m - 1)
  BY <1>7
<1>9. BestSoFar(Better(b[m - 1], report[m]), report, m)
  BY <1>7, <1>8, OneMorePlace
<1> QED
  BY <1>1, <1>5, <1>7, <1>9

\* Whatever order the outcomes came in, the report's best is the first success if that has
\* no number, and else a success with a number no other success exceeds.
THEOREM BestBeatsAll == Spec => []BestIsBest
<1>1. ASSUME IInv PROVE BestIsBest
  <2>1. /\ collected \in Seq(DOMAIN futures) /\ Len(collected) \in Nat
        /\ DOMAIN collected = 1 .. Len(collected)
    BY <1>1 DEF IInv, TypeOK
  <2> DEFINE n == Len(collected)
  <2>2. DOMAIN outcomes = 1 .. n
    BY <2>1 DEF outcomes
  <2>3. ASSUME NEW k \in 1 .. n, outcomes[k].ok
        PROVE  outcomes[k].stats \in Int \cup {NaN}
    <3> DEFINE i == collected[k]
               spec == specs[i]
    <3>1. i \in DOMAIN futures /\ futures[i] \notin {Queued, Running, Raised} /\ outcomes[k] = futures[i].outcome
      BY <1>1, <2>1 DEF IInv, DataInv, CollectedAreDone, outcomes
    <3> HIDE DEF i
    <3>2. futures[i] \in Finished(spec) /\ (futures[i] # Failure(spec) => Builds(spec))
      BY <1>1, <3>1 DEF IInv, DataInv, FuturesAreOwn
    <3>3. spec \in ToSet(specs) /\ specs \in SpecLists
      BY <1>1, <3>1, SpecsType DEF IInv, TypeOK
    <3> HIDE DEF spec
    <3>4. ~ Failure(spec).outcome.ok
      BY DEF Failure, Done
    <3>5. Builds(spec)
      BY <2>3, <3>1, <3>2, <3>4
    <3>6. PICK path : futures[i] = Done(Success(spec, path))
      BY <2>3, <3>1, <3>2, <3>4 DEF Finished
    <3>7. outcomes[k].stats = Sharpe(spec)
      BY <3>1, <3>6 DEF Done, Success
    <3> QED
      BY <3>3, <3>5, <3>7, SweepAssumption
  <2>4. BestSoFar(Best(outcomes), outcomes, n)
    BY <2>1, <2>2, <2>3, BestOfReport
  <2> HIDE DEF n
  <2>5. ASSUME NEW f \in 1 .. n, outcomes[f].ok, \A k \in 1 .. n : outcomes[k].ok => f <= k
        PROVE  StartsAt(outcomes, f)
    BY <2>1, <2>5 DEF StartsAt, n
  <2>6. ~ NoBest.ok
    BY DEF NoBest
  <2> QED
    BY <2>2, <2>4, <2>5, <2>6 DEF BestIsBest, BestSoFar
<1> QED
  BY <1>1, Invariant, PTL
-----------------------------------------------------------------------------
(* The store of bars *)

\* A series: finitely many bars, each after the epoch, consistent and at positive prices.
Series ==
  UNION {[times -> {bar \in Bar : Valid(bar) /\ bar.low > 0}] :
         times \in {T \in SUBSET Nat : IsFiniteSet(T)}}

StoreInv ==
  /\ interval \in {"m1", "day"}
  /\ store \in [Symbols -> Series]
  /\ interval = "m1" => \A s \in Symbols : \A t \in DOMAIN store[s] : MinuteOfDay(t) >= Shanghai

LEMMA SeriesHas ==
  ASSUME NEW series \in Series
  PROVE  /\ IsFiniteSet(DOMAIN series) /\ DOMAIN series \subseteq Nat
         /\ series = [t \in DOMAIN series |-> series[t]]
         /\ \A t \in DOMAIN series : series[t] \in Bar /\ Valid(series[t]) /\ series[t].low > 0
BY DEF Series

\* A series with one more bar, in its place.
LEMMA OneMoreBar ==
  ASSUME NEW series \in Series, NEW t \in Nat, NEW bar \in Bar, Valid(bar), bar.low > 0
  PROVE  [u \in DOMAIN series \cup {t} |-> IF u = t THEN bar ELSE series[u]] \in Series
<1> DEFINE longer == [u \in DOMAIN series \cup {t} |-> IF u = t THEN bar ELSE series[u]]
<1>1. IsFiniteSet(DOMAIN series \cup {t}) /\ DOMAIN series \cup {t} \in SUBSET Nat
  BY SeriesHas, FS_AddElement
<1>2. longer \in [DOMAIN series \cup {t} -> {b \in Bar : Valid(b) /\ b.low > 0}]
  BY SeriesHas
<1> QED
  BY <1>1, <1>2 DEF Series

LEMMA StoreStep ==
  ASSUME StoreInv, [ResearchNext]_researchVars
  PROVE  /\ StoreInv'
         /\ \A s \in Symbols : DOMAIN store[s] \subseteq DOMAIN store'[s]
<1>1. CASE UNCHANGED researchVars
  BY <1>1 DEF researchVars, StoreInv
<1>2. CASE ResearchNext
  <2>1. PICK a \in Arrivals(interval) : WriteBar(a[1], a[2], a[3])
    BY <1>2 DEF ResearchNext
  <2> DEFINE t == a[2]
             bar == a[3]
  <2>2. /\ a[1] \in Symbols /\ t \in Nat /\ bar \in Bar /\ Valid(bar) /\ bar.low > 0
        /\ interval = "m1" => MinuteOfDay(t) >= Shanghai
    BY <2>1, ResearchAssumption DEF StoreInv
  <2> HIDE DEF t, bar
  <2>3. PICK s \in Symbols :
          /\ store' = [store EXCEPT ![s] = [u \in DOMAIN store[s] \cup {t} |->
                                              IF u = t THEN bar ELSE store[s][u]]]
          /\ interval' = interval
    BY <2>1, <2>2 DEF WriteBar, t, bar
  <2>4. store \in [Symbols -> Series]
    BY DEF StoreInv
  <2> DEFINE longer == [u \in DOMAIN store[s] \cup {t} |-> IF u = t THEN bar ELSE store[s][u]]
  <2>5. longer \in Series /\ DOMAIN longer = DOMAIN store[s] \cup {t}
    BY <2>2, <2>4, OneMoreBar
  <2>6. store' = [store EXCEPT ![s] = longer]
    BY <2>3
  <2> HIDE DEF longer
  <2>7. store' \in [Symbols -> Series] /\ \A r \in Symbols : store'[r] = IF r = s THEN longer ELSE store[r]
    BY <2>4, <2>5, <2>6
  <2>8. interval' = "m1" =>
          \A r \in Symbols : \A u \in DOMAIN store'[r] : MinuteOfDay(u) >= Shanghai
    BY <2>2, <2>3, <2>5, <2>7 DEF StoreInv
  <2> QED
    BY <2>3, <2>5, <2>7, <2>8 DEF StoreInv
<1> QED
  BY <1>1, <1>2

LEMMA StoreInvariant == ResearchSpec => []StoreInv
<1>1. ResearchInit => StoreInv
  <2> SUFFICES ASSUME ResearchInit PROVE StoreInv
    OBVIOUS
  <2>1. <<>> \in Series /\ DOMAIN <<>> = {}
    BY FS_EmptySet DEF Series
  <2> QED
    BY <2>1 DEF ResearchInit, StoreInv
<1>2. StoreInv /\ [ResearchNext]_researchVars => StoreInv'
  BY StoreStep
<1> QED
  BY <1>1, <1>2, PTL DEF ResearchSpec

-----------------------------------------------------------------------------
(* No lookahead *)

\* The trading dates before d are those of what was known at d.
LEMMA DatesBefore ==
  ASSUME NEW bars \in [Symbols -> Series], NEW d
  PROVE  {e \in TradingDates(bars) : e < d} = UNION {DOMAIN KnownAt(bars[s], d) : s \in Symbols}
<1>1. ASSUME NEW s \in Symbols
      PROVE  DOMAIN KnownAt(bars[s], d) = {t \in DOMAIN bars[s] : t < d}
  <2>1. \A t \in DOMAIN bars[s] : 0 <= t
    BY SeriesHas
  <2> QED
    BY <2>1 DEF KnownAt, ReadBars, Restrict
<1>2. ASSUME NEW e
      PROVE  e \in TradingDates(bars) /\ e < d <=> \E s \in Symbols : e \in DOMAIN KnownAt(bars[s], d)
  BY <1>1 DEF TradingDates
<1> QED
  BY <1>2, Zenon

\* Two stores of which the same was known at d have the same cross-section as of d.
LEMMA SameFeatures ==
  ASSUME NEW bars, NEW more, NEW d,
         \A s \in Symbols : KnownAt(bars[s], d) = KnownAt(more[s], d)
  PROVE  BuildFeatures(bars, Symbols, d, Lookback) = BuildFeatures(more, Symbols, d, Lookback)
<1> DEFINE tail(s, known) == [symbol |-> s, bars |-> Trailing(known, Lookback)]
<1>1. Windows(bars, Symbols, d, Lookback)
        = {tail(s, KnownAt(bars[s], d)) : s \in {s \in Symbols : DOMAIN KnownAt(bars[s], d) # {}}}
  BY Zenon DEF Windows
<1>2. Windows(more, Symbols, d, Lookback)
        = {tail(s, KnownAt(more[s], d)) : s \in {s \in Symbols : DOMAIN KnownAt(more[s], d) # {}}}
  BY Zenon DEF Windows
<1> HIDE DEF tail
<1>3. Windows(bars, Symbols, d, Lookback) = Windows(more, Symbols, d, Lookback)
  BY <1>1, <1>2
<1> QED
  BY <1>3, Zenon DEF BuildFeatures

\* A schedule of budgets never looks ahead: whatever bar comes in on or after a trading date,
\* in whatever order symbols and gaps are loaded, that date rebalances as before and to the
\* same budgets.
THEOREM ScheduleNeverLooksAhead == ResearchSpec => NoLookahead
<1>1. ASSUME StoreInv, [ResearchNext]_researchVars, interval = "day",
             NEW d \in TradingDates(store), \A s \in Symbols : Before(s, d) = Before(s, d)'
      PROVE  /\ d \in RebalanceDates(store) <=> d \in RebalanceDates(store)'
             /\ d \in RebalanceDates(store) => Budgets(d) = Budgets(d)'
  <2> DEFINE more == store'
  <2>1. /\ store \in [Symbols -> Series] /\ more \in [Symbols -> Series]
        /\ \A s \in Symbols : DOMAIN store[s] \subseteq DOMAIN more[s]
    BY <1>1, StoreStep DEF StoreInv
  <2>2. \A s \in Symbols : KnownAt(store[s], d) = KnownAt(more[s], d)
    BY <1>1 DEF Before, KnownAt
  <2> HIDE DEF more
  <2>3. d \in TradingDates(more)
    BY <1>1, <2>1 DEF TradingDates
  <2>4. {e \in TradingDates(store) : e < d} = {e \in TradingDates(more) : e < d}
    BY <2>1, <2>2, DatesBefore
  <2>5. d \in RebalanceDates(store) <=> d \in RebalanceDates(more)
    BY <1>1, <2>3, <2>4, Zenon DEF RebalanceDates
  <2>6. BuildFeatures(store, Symbols, d, Lookback) = BuildFeatures(more, Symbols, d, Lookback)
    BY <2>2, SameFeatures
  <2>7. BudgetsAsOf(store, d) = BudgetsAsOf(more, d)
    BY <2>6, Zenon DEF BudgetsAsOf, PicksAsOf
  <2> QED
    BY <2>5, <2>7 DEF Budgets, more
<1>2. StoreInv /\ [ResearchNext]_researchVars =>
        [interval = "day" =>
           \A d \in TradingDates(store) :
             (\A s \in Symbols : Before(s, d) = Before(s, d)') =>
               /\ d \in RebalanceDates(store) <=> d \in RebalanceDates(store)'
               /\ d \in RebalanceDates(store) => Budgets(d) = Budgets(d)']_researchVars
  BY <1>1
<1> QED
  BY <1>2, StoreInvariant, PTL DEF ResearchSpec, NoLookahead
-----------------------------------------------------------------------------
(* Sums over finite sets *)

Pick(T) == CHOOSE x \in T : TRUE

\* g is what MapThenSumSet computes of f on every subset of S.
IsSum(g, f, S) ==
  g = [T \in SUBSET S |-> IF T = {} THEN 0 ELSE f[Pick(T)] + g[T \ {Pick(T)}]]

\* A property of finite sets that has no smallest exception has none.
LEMMA SmallestException ==
  ASSUME NEW Sets, Sets # {}, \A T \in Sets : IsFiniteSet(T)
  PROVE  \E T \in Sets : \A U \in Sets : Cardinality(T) <= Cardinality(U)
<1> DEFINE sizes == {Cardinality(T) : T \in Sets}
<1>1. sizes \subseteq Nat /\ sizes # {}
  BY FS_CardinalityType
<1>2. PICK n \in sizes : \A m \in sizes : n <= m
  BY <1>1, LeastNatural
<1> QED
  BY <1>2

LEMMA SumExists ==
  ASSUME NEW S, IsFiniteSet(S), NEW f
  PROVE  \E g : IsSum(g, f, S)
<1> DEFINE Small(n) == {T \in SUBSET S : Cardinality(T) <= n}
           IsSmall(g, n) ==
             g = [T \in Small(n) |-> IF T = {} THEN 0 ELSE f[Pick(T)] + g[T \ {Pick(T)}]]
           Bad == {n \in Nat : ~ \E g : IsSmall(g, n)}
<1>1. \A T \in SUBSET S : IsFiniteSet(T) /\ Cardinality(T) \in Nat /\ Cardinality(T) <= Cardinality(S)
  BY FS_Subset, FS_CardinalityType
<1>2. Bad = {}
  <2>1. SUFFICES ASSUME Bad # {} PROVE FALSE
    OBVIOUS
  <2>2. PICK m \in Bad : \A k \in Bad : m <= k
    BY <2>1, LeastNatural
  <2>3. m \in Nat /\ ~ \E g : IsSmall(g, m)
    BY <2>2
  <2>4. m # 0
    <3>1. SUFFICES ASSUME m = 0 PROVE FALSE
      OBVIOUS
    <3>2. \A T \in Small(0) : T = {}
      BY <1>1, FS_EmptySet
    <3> DEFINE g == [T \in Small(0) |-> 0]
    <3>3. IsSmall(g, 0)
      BY <3>2
    <3> QED
      BY <2>3, <3>1, <3>3
  <2>5. m - 1 \in Nat /\ m - 1 \notin Bad
    <3> HIDE DEF Bad
    <3> QED
      BY <2>2, <2>3, <2>4
  <2>6. PICK h : IsSmall(h, m - 1)
    BY <2>5
  <2> DEFINE g == [T \in Small(m) |-> IF T = {} THEN 0 ELSE f[Pick(T)] + h[T \ {Pick(T)}]]
  <2>7. ASSUME NEW T \in Small(m), T # {}
        PROVE  g[T \ {Pick(T)}] = h[T \ {Pick(T)}]
    <3> DEFINE U == T \ {Pick(T)}
    <3>1. Pick(T) \in T
      BY <2>7, Zenon DEF Pick
    <3>2. U \in SUBSET S /\ Cardinality(U) = Cardinality(T) - 1
      BY <1>1, <3>1, FS_RemoveElement
    <3>3. U \in Small(m - 1) /\ U \in Small(m)
      BY <1>1, <2>3, <3>2
    <3> HIDE DEF U
    <3>4. h[U] = IF U = {} THEN 0 ELSE f[Pick(U)] + h[U \ {Pick(U)}]
      BY <2>6, <3>3
    <3> QED
      BY <3>3, <3>4 DEF U
  <2>8. IsSmall(g, m)
    <3>1. \A T \in Small(m) : g[T] = IF T = {} THEN 0 ELSE f[Pick(T)] + g[T \ {Pick(T)}]
      BY <2>7
    <3>2. DOMAIN g = Small(m) /\ g = [T \in DOMAIN g |-> g[T]]
      OBVIOUS
    <3> HIDE DEF g, Small
    <3> QED
      BY <3>1, <3>2
  <2> QED
    BY <2>3, <2>8
<1>3. Cardinality(S) \in Nat /\ Small(Cardinality(S)) = SUBSET S
  BY <1>1
<1>4. PICK g : IsSmall(g, Cardinality(S))
  BY <1>2, <1>3
<1> QED
  BY <1>3, <1>4 DEF IsSum

SumOver(S, f) == MapThenSumSet(LAMBDA x : f[x], S)

LEMMA SumIsMapThenSum ==
  ASSUME NEW S, IsFiniteSet(S), NEW f
  PROVE  \E g : IsSum(g, f, S) /\ SumOver(S, f) = g[S]
<1> DEFINE raw(g) == g = [T \in SUBSET S |->
                            IF T = {} THEN 0
                            ELSE f[CHOOSE x \in T : TRUE] + g[T \ {CHOOSE x \in T : TRUE}]]
<1>1. SumOver(S, f) = (CHOOSE g : raw(g))[S]
  BY DEF SumOver, MapThenSumSet, MapThenFoldSet
<1>2. \A g : raw(g) <=> IsSum(g, f, S)
  BY DEF IsSum, Pick
<1> HIDE DEF raw
<1>3. \E g : raw(g)
  BY <1>2, SumExists
<1>4. PICK g : g = (CHOOSE h : raw(h)) /\ raw(g)
  BY <1>3, Zenon
<1> QED
  BY <1>1, <1>2, <1>4

LEMMA ProductNat ==
  ASSUME NEW a \in Nat, NEW b \in Nat
  PROVE  a * b \in Nat
OBVIOUS

\* A sum of naturals, and another whose terms are no larger to the scale of a and b.
LEMMA ScaledSums ==
  ASSUME NEW S, IsFiniteSet(S), NEW f, NEW v, NEW a \in Nat, NEW b \in Nat,
         \A x \in S : f[x] \in Nat /\ v[x] \in Nat /\ a * v[x] <= b * f[x],
         NEW g, IsSum(g, f, S), NEW h, IsSum(h, v, S)
  PROVE  \A T \in SUBSET S : g[T] \in Nat /\ h[T] \in Nat /\ a * h[T] <= b * g[T]
<1> DEFINE Fine(T) == g[T] \in Nat /\ h[T] \in Nat /\ a * h[T] <= b * g[T]
           Bad == {T \in SUBSET S : ~ Fine(T)}
<1>1. SUFFICES ASSUME Bad # {} PROVE FALSE
  OBVIOUS
<1>2. \A T \in SUBSET S : IsFiniteSet(T) /\ Cardinality(T) \in Nat
  BY FS_Subset, FS_CardinalityType
<1>3. PICK T \in Bad : \A U \in Bad : Cardinality(T) <= Cardinality(U)
  BY <1>1, <1>2, SmallestException
<1>4. T \in SUBSET S /\ ~ Fine(T)
  BY <1>3
<1>5. T # {}
  <2>1. g[{}] = 0 /\ h[{}] = 0
    BY DEF IsSum
  <2>2. Fine({})
    BY <2>1
  <2> QED
    BY <1>4, <2>2
<1> DEFINE x == Pick(T)
           U == T \ {x}
<1>6. x \in T
  BY <1>5, Zenon DEF Pick
<1>7. U \in SUBSET S /\ Cardinality(U) = Cardinality(T) - 1
  BY <1>2, <1>4, <1>6, FS_RemoveElement
<1>8. U \notin Bad
  BY <1>2, <1>3, <1>4, <1>7
<1>9. g[U] \in Nat /\ h[U] \in Nat /\ a * h[U] <= b * g[U]
  BY <1>7, <1>8
<1>10. g[T] = f[x] + g[U] /\ h[T] = v[x] + h[U]
  BY <1>4, <1>5 DEF IsSum
<1>11. f[x] \in Nat /\ v[x] \in Nat /\ a * v[x] <= b * f[x]
  BY <1>4, <1>6
<1> HIDE DEF x, U
<1>12. a * h[T] = a * v[x] + a * h[U] /\ b * g[T] = b * f[x] + b * g[U]
  BY <1>9, <1>10, <1>11
<1>13. a * v[x] \in Nat /\ a * h[U] \in Nat /\ b * f[x] \in Nat /\ b * g[U] \in Nat
  BY <1>9, <1>11, ProductNat
<1>14. g[T] \in Nat /\ h[T] \in Nat
  BY <1>9, <1>10, <1>11
<1> QED
  BY <1>4, <1>9, <1>11, <1>12, <1>13, <1>14
-----------------------------------------------------------------------------
(* Budgets *)

LEMMA ProductOrder ==
  ASSUME NEW a \in Nat, NEW b \in Int, NEW c \in Int, b <= c
  PROVE  a * b <= a * c
<1>1. a * (c - b) \in Nat
  BY ProductNat
<1>2. a * (c - b) = a * c - a * b /\ a * c \in Int /\ a * b \in Int
  OBVIOUS
<1> QED
  BY <1>1, <1>2

LEMMA QuotientBounds ==
  ASSUME NEW n \in Nat, NEW d \in Nat \ {0}
  PROVE  n \div d \in Nat /\ d * (n \div d) <= n
OBVIOUS

\* A sum of at least one number, all positive.
LEMMA PositiveSum ==
  ASSUME NEW S, IsFiniteSet(S), S # {}, NEW f, \A x \in S : f[x] \in Nat \ {0},
         NEW g, IsSum(g, f, S)
  PROVE  g[S] \in Nat \ {0}
<1> DEFINE x == Pick(S)
<1>1. x \in S
  BY Zenon DEF Pick
<1>2. \A T \in SUBSET S : g[T] \in Nat
  <2>1. \A y \in S : f[y] \in Nat /\ 0 * f[y] <= 0 * f[y]
    OBVIOUS
  <2> QED
    BY <2>1, ScaledSums
<1>3. g[S] = f[x] + g[S \ {x}] /\ S \ {x} \in SUBSET S
  BY DEF IsSum
<1> QED
  BY <1>1, <1>2, <1>3

LEMMA MinOfTwo ==
  ASSUME NEW a \in Int, NEW b \in Int
  PROVE  Min({a, b}) = IF a <= b THEN a ELSE b
<1> DEFINE least == IF a <= b THEN a ELSE b
<1>1. least \in {a, b} /\ \A y \in {a, b} : least <= y
  OBVIOUS
<1>2. \A x \in {a, b} : (\A y \in {a, b} : x <= y) => x = least
  OBVIOUS
<1> HIDE DEF least
<1>3. Min({a, b}) \in {a, b} /\ \A y \in {a, b} : Min({a, b}) <= y
  BY <1>1, Zenon DEF Min
<1> QED
  BY <1>2, <1>3 DEF least

\* Scaling first and capping after: no weight is above the cap and all of them come to no
\* more than the gross.
LEMMA NormaliseKeepsLimits ==
  ASSUME NEW raw, IsFiniteSet(DOMAIN raw), \A s \in DOMAIN raw : raw[s] \in Int
  PROVE  LET w == Normalise(raw)
         IN  /\ \A s \in DOMAIN w : w[s] \in 0 .. MaxWeight
             /\ SumOver(DOMAIN w, w) <= Gross
<1> DEFINE positive == {s \in DOMAIN raw : raw[s] > 0}
           total == SumOver(positive, raw)
           w == Normalise(raw)
<1>0. Gross \in Nat /\ MaxWeight \in Nat
  BY PortfolioAssumption
<1>1. w = [s \in positive |-> Min({(raw[s] * Gross) \div total, MaxWeight})]
  BY Zenon DEF Normalise, SumOver
<1>2. IsFiniteSet(positive) /\ \A s \in positive : raw[s] \in Nat \ {0}
  <2>1. positive \in SUBSET DOMAIN raw
    OBVIOUS
  <2> QED
    BY <2>1, FS_Subset
<1>3. PICK g : IsSum(g, raw, positive) /\ total = g[positive]
  BY <1>2, SumIsMapThenSum
<1>4. PICK h : IsSum(h, w, positive) /\ SumOver(positive, w) = h[positive]
  BY <1>2, SumIsMapThenSum
<1> HIDE DEF total, w, positive
<1>5. CASE positive = {}
  <2>1. h[positive] = 0 /\ DOMAIN w = {}
    BY <1>1, <1>4, <1>5 DEF IsSum
  <2> QED
    BY <1>0, <1>4, <1>5, <2>1 DEF w
<1>6. CASE positive # {}
  <2>1. total \in Nat \ {0}
    BY <1>2, <1>3, <1>6, PositiveSum
  <2>2. ASSUME NEW s \in positive
        PROVE  w[s] \in 0 .. MaxWeight /\ total * w[s] <= Gross * raw[s]
    <3> DEFINE q == (raw[s] * Gross) \div total
    <3>1. raw[s] * Gross \in Nat
      BY <1>0, <1>2, ProductNat
    <3>2. q \in Nat /\ total * q <= raw[s] * Gross
      BY <2>1, <3>1, QuotientBounds
    <3>3. w[s] = Min({q, MaxWeight})
      BY <1>1
    <3> HIDE DEF q
    <3>4. w[s] \in 0 .. MaxWeight /\ w[s] <= q
      BY <1>0, <3>2, <3>3, MinOfTwo
    <3>5. total * w[s] <= total * q
      BY <1>0, <2>1, <3>2, <3>4, ProductOrder
    <3>6. total * w[s] \in Int /\ total * q \in Int /\ raw[s] * Gross = Gross * raw[s]
      BY <1>0, <1>2, <2>1, <3>2, <3>4
    <3> QED
      BY <3>1, <3>2, <3>4, <3>5, <3>6
  <2>3. h[positive] \in Nat /\ total * h[positive] <= Gross * g[positive]
    <3>1. \A s \in positive : raw[s] \in Nat /\ w[s] \in Nat /\ total * w[s] <= Gross * raw[s]
      BY <1>0, <1>2, <2>2
    <3>2. \A T \in SUBSET positive : g[T] \in Nat /\ h[T] \in Nat /\ total * h[T] <= Gross * g[T]
      BY <1>0, <1>2, <1>3, <1>4, <2>1, <3>1, ScaledSums, Zenon
    <3> QED
      BY <3>2
  <2>4. h[positive] <= Gross
    <3>1. SUFFICES ASSUME Gross + 1 <= h[positive] PROVE FALSE
      BY <1>0, <2>3
    <3>2. total * (Gross + 1) <= total * h[positive]
      BY <1>0, <2>1, <2>3, <3>1, ProductOrder
    <3>3. total * (Gross + 1) = total * Gross + total /\ total * Gross = Gross * total
          /\ total * Gross \in Nat /\ total * h[positive] \in Nat
      BY <1>0, <2>1, <2>3, ProductNat
    <3> QED
      BY <1>3, <2>1, <2>3, <3>2, <3>3
  <2>5. DOMAIN w = positive
    BY <1>1
  <2> QED
    BY <1>4, <2>2, <2>4, <2>5 DEF w
<1> QED
  BY <1>5, <1>6

\* The least and the largest of a finite set of numbers.
LEMMA Extremes ==
  ASSUME NEW S, IsFiniteSet(S), S # {}, S \subseteq Int
  PROVE  /\ Min(S) \in S /\ \A y \in S : Min(S) <= y
         /\ Max(S) \in S /\ \A y \in S : Max(S) >= y
<1> DEFINE HasBoth(T) == (\E x \in T : \A y \in T : x <= y) /\ (\E x \in T : \A y \in T : x >= y)
           Bad == {T \in SUBSET S : T # {} /\ ~ HasBoth(T)}
<1>1. HasBoth(S)
  <2>1. SUFFICES ASSUME Bad # {} PROVE FALSE
    OBVIOUS
  <2>2. \A T \in SUBSET S : IsFiniteSet(T) /\ Cardinality(T) \in Nat
    BY FS_Subset, FS_CardinalityType
  <2>3. PICK T \in Bad : \A U \in Bad : Cardinality(T) <= Cardinality(U)
    BY <2>1, <2>2, SmallestException
  <2>4. PICK x \in T : TRUE
    BY <2>3
  <2> DEFINE U == T \ {x}
  <2>5. U \in SUBSET S /\ Cardinality(U) = Cardinality(T) - 1
    BY <2>2, <2>3, <2>4, FS_RemoveElement
  <2>6. U \notin Bad
    <3>1. T \in SUBSET S
      BY <2>3
    <3> HIDE DEF Bad, U
    <3> QED
      BY <2>2, <2>3, <2>5, <3>1
  <2>7. CASE U = {}
    <3>1. T = {x} /\ x \in Int
      BY <2>3, <2>4, <2>7
    <3> QED
      BY <2>3, <3>1
  <2>8. CASE U # {}
    <3>1. PICK low \in U, high \in U : \A y \in U : low <= y /\ high >= y
      BY <2>5, <2>6, <2>8
    <3>2. T \subseteq Int /\ T = U \cup {x} /\ {low, high, x} \subseteq T
      BY <2>3, <2>4
    <3>3. \E z \in {low, x} : \A y \in T : z <= y
      BY <3>1, <3>2
    <3>4. \E z \in {high, x} : \A y \in T : z >= y
      BY <3>1, <3>2
    <3> QED
      BY <2>3, <3>2, <3>3, <3>4
  <2> QED
    BY <2>7, <2>8
<1> QED
  BY <1>1, Zenon DEF Min, Max
LEMMA RestrictSeries ==
  ASSUME NEW series \in Series, NEW T \in SUBSET DOMAIN series
  PROVE  Restrict(series, T) \in Series /\ DOMAIN Restrict(series, T) = T
<1>1. IsFiniteSet(T) /\ T \in SUBSET Nat
  BY SeriesHas, FS_Subset
<1>2. Restrict(series, T) \in [T -> {bar \in Bar : Valid(bar) /\ bar.low > 0}]
  BY SeriesHas DEF Restrict
<1> QED
  BY <1>1, <1>2 DEF Series

LEMMA DivisionInt ==
  ASSUME NEW n \in Int, NEW d \in Int, d > 0
  PROVE  n \div d \in Int
OBVIOUS

\* What the allocators read of a row are numbers, as the deviation of any closes is.
LEMMA FeaturesAreNumbers ==
  ASSUME \A window \in Series : Volatility(window) \in Int,
         NEW s, NEW window \in Series
  PROVE  LET row == OhlcvFeatures(s, window)
         IN  /\ {"symbol", "volatility", "momentum"} \subseteq DOMAIN row
             /\ row.symbol = s /\ row.volatility \in Int /\ row.momentum \in Int
<1> DEFINE times == DOMAIN window
           first == window[Min(times)].close
           last == window[Max(times)].close
           row == OhlcvFeatures(s, window)
           price == Number(window, last)
           adv == Number(window, Turnover(window) \div Cardinality(times))
           volatility == Number(window, Volatility(window))
           momentum == Number(window, (last * Cent) \div first - Cent)
<1>0. Null \in Int
  BY SMT DEF Null
<1>1. row = [symbol |-> s, price |-> price, adv |-> adv, volatility |-> volatility,
             momentum |-> momentum, bars |-> Cardinality(times)]
  BY DEF OhlcvFeatures
<1>2. momentum \in Int
  <2>1. SUFFICES ASSUME times # {} PROVE (last * Cent) \div first - Cent \in Int
    BY <1>0, Zenon DEF Number
  <2>2. Min(times) \in times /\ Max(times) \in times
    BY <2>1, SeriesHas, Extremes
  <2>3. \A t \in times : window[t].close \in Int /\ window[t].close > 0
    BY SeriesHas DEF Bar, Valid
  <2>4. first \in Int /\ first > 0 /\ last \in Int
    BY <2>2, <2>3
  <2> HIDE DEF first, last
  <2>5. last * Cent \in Int
    BY <2>4 DEF Cent
  <2>6. (last * Cent) \div first \in Int
    BY <2>4, <2>5, DivisionInt
  <2> QED
    BY <2>6 DEF Cent
<1>3. volatility \in Int
  BY <1>0, Zenon DEF Number
<1> HIDE DEF row, price, adv, momentum, volatility
<1>4. /\ {"symbol", "volatility", "momentum"} \subseteq DOMAIN row
      /\ row.symbol = s /\ row.volatility = volatility /\ row.momentum = momentum
  BY <1>1
<1> QED
  BY <1>2, <1>3, <1>4 DEF row

LEMMA OwnColumns ==
  ASSUME NEW row, NEW c \in DOMAIN row
  PROVE  Joined(row)[c] = row[c]
BY DEF Joined

\* The rows of a cross-section are of candidates, with numbers in them.
LEMMA RowsAreNumbers ==
  ASSUME \A window \in Series : Volatility(window) \in Int,
         NEW bars \in [Symbols -> Series], NEW d, NEW row \in BuildFeatures(bars, Symbols, d, Lookback)
  PROVE  row.symbol \in Symbols /\ row.volatility \in Int /\ row.momentum \in Int
<1>1. PICK w \in Windows(bars, Symbols, d, Lookback) : row = Joined(OhlcvFeatures(w.symbol, w.bars))
  BY Zenon DEF BuildFeatures
<1>2. PICK s \in Symbols : w = [symbol |-> s, bars |-> Trailing(KnownAt(bars[s], d), Lookback)]
  BY Zenon DEF Windows
<1> DEFINE window == Trailing(KnownAt(bars[s], d), Lookback)
           own == OhlcvFeatures(s, window)
<1>3. KnownAt(bars[s], d) \in Series
  BY RestrictSeries DEF KnownAt, ReadBars
<1>4. window \in Series
  BY <1>3, RestrictSeries DEF Trailing
<1>5. /\ {"symbol", "volatility", "momentum"} \subseteq DOMAIN own
      /\ own.symbol = s /\ own.volatility \in Int /\ own.momentum \in Int
  BY <1>4, FeaturesAreNumbers
<1>6. w.symbol = s /\ w.bars = window
  BY <1>2
<1> HIDE DEF own, window
<1>7. row = Joined(own)
  BY <1>1, <1>6, Zenon DEF own
<1> QED
  BY <1>5, <1>7, OwnColumns

-----------------------------------------------------------------------------
(* The budgets *)

\* What is picked are rows of the cross-section.
LEMMA PicksAreRows ==
  ASSUME NEW bars, NEW d, NEW picks \in PicksAsOf(bars, d)
  PROVE  picks \subseteq BuildFeatures(bars, Symbols, d, Lookback)
<1> DEFINE F == Survivors(BuildFeatures(bars, Symbols, d, Lookback))
           scored == {[row |-> row, score |-> Score(F, row)] : row \in F}
<1>1. picks \in TopSets(F)
  BY Zenon DEF PicksAsOf
<1>2. \E P \in SUBSET scored : picks = {p.row : p \in P}
  BY <1>1, Zenon DEF TopSets
<1>3. F \subseteq BuildFeatures(bars, Symbols, d, Lookback)
  BY Zenon DEF Survivors
<1>4. \A p \in scored : p.row \in F
  <2> HIDE DEF F
  <2> QED
    OBVIOUS
<1> HIDE DEF F, scored
<1> QED
  BY <1>2, <1>3, <1>4

\* A raw weight is a number, whichever of the allocators gave it.
LEMMA RawsAreNumbers ==
  ASSUME NEW picks,
         \A row \in picks : row.symbol \in Symbols /\ row.volatility \in Int /\ row.momentum \in Int,
         NEW raw \in {InverseVol(picks), EqualWeight(picks), ScoreProportional(picks, "momentum")}
  PROVE  IsFiniteSet(DOMAIN raw) /\ \A s \in DOMAIN raw : raw[s] \in Int
<1>1. IsFiniteSet(Chosen(picks))
  <2>1. Chosen(picks) \in SUBSET Symbols
    BY DEF Chosen
  <2> QED
    BY <2>1, ResearchAssumption, FS_Subset
<1>2. ASSUME NEW s \in Chosen(picks)
      PROVE  RowOf(picks, s) \in picks
  <2>1. \E row \in picks : row.symbol = s
    BY Zenon DEF Chosen
  <2> QED
    BY <2>1, Zenon DEF RowOf
<1>3. CASE raw = InverseVol(picks)
  <2>1. DOMAIN raw = Chosen(picks)
    BY <1>3, SMT DEF InverseVol
  <2>2. ASSUME NEW s \in Chosen(picks)
        PROVE  raw[s] \in Int
    <3> DEFINE vol == RowOf(picks, s).volatility
    <3>1. vol \in Int
      BY <1>2
    <3>2. raw[s] = IF vol > 0 THEN 1000000 \div vol ELSE 0
      BY <1>3, SMT DEF InverseVol
    <3> HIDE DEF vol
    <3>3. ASSUME vol > 0 PROVE 1000000 \div vol \in Int
      BY <3>1, <3>3, SMT
    <3> QED
      BY <3>2, <3>3, SMT
  <2> QED
    BY <1>1, <2>1, <2>2
<1>4. CASE raw = EqualWeight(picks)
  BY <1>1, <1>4 DEF EqualWeight
<1>5. CASE raw = ScoreProportional(picks, "momentum")
  <2>1. \A s \in Chosen(picks) : RowOf(picks, s)["momentum"] \in Int
    BY <1>2
  <2> QED
    BY <1>1, <1>5, <2>1 DEF ScoreProportional
<1> QED
  BY <1>3, <1>4, <1>5

\* Whenever the schedule rebalances there are lookback days of history before it, and
\* whatever was picked and whichever allocator weighs it, no name is above the cap and all of
\* them come to no more than the gross: the closes of any window having some deviation.
THEOREM BudgetsStayWithinLimits ==
  ASSUME \A window \in Series : Volatility(window) \in Int
  PROVE  ResearchSpec => []BudgetsKeepToTheLimits
<1>1. ASSUME StoreInv, NEW d \in RebalanceDates(store)
      PROVE  Cardinality({e \in TradingDates(store) : e < d}) >= Lookback
  BY <1>1, Zenon DEF RebalanceDates
<1>2. ASSUME StoreInv, NEW d, NEW picks \in PicksAsOf(store, d),
             NEW raw \in {InverseVol(picks), EqualWeight(picks), ScoreProportional(picks, "momentum")},
             NEW w, w = Normalise(raw)
      PROVE  /\ \A s \in DOMAIN w : w[s] \in 0 .. MaxWeight
             /\ MapThenSumSet(LAMBDA s : w[s], DOMAIN w) <= Gross
  <2>1. \A row \in picks : row.symbol \in Symbols /\ row.volatility \in Int /\ row.momentum \in Int
    BY <1>2, PicksAreRows, RowsAreNumbers DEF StoreInv
  <2>2. IsFiniteSet(DOMAIN raw) /\ \A s \in DOMAIN raw : raw[s] \in Int
    BY <2>1, RawsAreNumbers
  <2>3. /\ \A s \in DOMAIN w : w[s] \in 0 .. MaxWeight
        /\ SumOver(DOMAIN w, w) <= Gross
    BY <1>2, <2>2, NormaliseKeepsLimits, Zenon
  <2> QED
    BY <2>3, Zenon DEF SumOver
<1>3. StoreInv => BudgetsKeepToTheLimits
  BY <1>1, <1>2, Zenon DEF BudgetsKeepToTheLimits
<1> QED
  BY <1>3, StoreInvariant, PTL
-----------------------------------------------------------------------------
(* Days cut out of minutes *)

\* A minute from eight in the morning on lies on the UTC day of its Beijing date.
LEMMA MorningsAreOfTheirDay ==
  ASSUME NEW t \in Nat, MinuteOfDay(t) >= Shanghai
  PROVE  /\ DateOf(t) \in Int
         /\ \A d \in Int : /\ d * DayMinutes <= t <=> d <= DateOf(t)
                           /\ t < d * DayMinutes <=> DateOf(t) < d
<1> DEFINE date == DateOf(t)
           minute == MinuteOfDay(t)
<1>1. /\ date \in Int /\ minute \in 0 .. DayMinutes - 1
      /\ t + Shanghai = date * DayMinutes + minute
  BY DEF DateOf, MinuteOfDay, DayMinutes, Shanghai
<1> HIDE DEF date, minute
<1>2. minute \in Shanghai .. DayMinutes - 1
  BY <1>1 DEF minute, Shanghai, DayMinutes
<1>3. ASSUME NEW d \in Int
      PROVE  /\ d * DayMinutes <= t <=> d <= date
             /\ t < d * DayMinutes <=> date < d
  BY <1>1, <1>2 DEF Shanghai, DayMinutes
<1> QED
  BY <1>1, <1>3 DEF date

LEMMA SameDaily ==
  ASSUME NEW series \in Series, \A t \in DOMAIN series : MinuteOfDay(t) >= Shanghai,
         NEW from \in Int, NEW to \in Int
  PROVE  ResampleDaily(ReadBars(series, from * DayMinutes, to * DayMinutes))
           = ReadBars(ResampleDaily(series), from * DayMinutes, to * DayMinutes)
<1> DEFINE start == from * DayMinutes
           end == to * DayMinutes
           T == {t \in DOMAIN series : start <= t /\ t < end}
           cut == ReadBars(series, start, end)
           stamp(t) == DailyStamp(DateOf(t))
           of(bars, m) == {t \in DOMAIN bars : stamp(t) = m}
           days(bars) == {stamp(t) : t \in DOMAIN bars}
           daily(bars) == [m \in days(bars) |-> Aggregate(Restrict(bars, of(bars, m)))]
           inside == {m \in days(series) : start <= m /\ m < end}
<1>1. ASSUME NEW t \in DOMAIN series
      PROVE  t \in Nat /\ (start <= t /\ t < end <=> start <= stamp(t) /\ stamp(t) < end)
  <2>1. t \in Nat /\ MinuteOfDay(t) >= Shanghai
    BY SeriesHas
  <2>2. DateOf(t) \in Int /\ (start <= t <=> from <= DateOf(t)) /\ (t < end <=> DateOf(t) < to)
    BY <2>1, MorningsAreOfTheirDay
  <2>3. (start <= stamp(t) <=> from <= DateOf(t)) /\ (stamp(t) < end <=> DateOf(t) < to)
    BY <2>2 DEF DailyStamp, DayMinutes
  <2> QED
    BY <2>1, <2>2, <2>3
<1>2. ASSUME NEW bars
      PROVE  ResampleDaily(bars) = daily(bars)
  <2>1. {DailyStamp(e) : e \in {DateOf(t) : t \in DOMAIN bars}} = days(bars)
    OBVIOUS
  <2> QED
    BY <2>1, Zenon DEF ResampleDaily
<1>3. DOMAIN cut = T /\ \A t \in T : cut[t] = series[t]
  BY DEF ReadBars, Restrict
<1> HIDE DEF start, end, stamp, cut
<1>4. days(cut) = inside
  BY <1>1, <1>3
<1>5. ASSUME NEW m \in inside
      PROVE  Restrict(cut, of(cut, m)) = Restrict(series, of(series, m))
  <2>1. of(cut, m) = of(series, m) /\ of(series, m) \subseteq T
    BY <1>1, <1>3
  <2> HIDE DEF T
  <2> QED
    BY <1>3, <2>1 DEF Restrict
<1>6. ReadBars(daily(series), start, end) = [m \in inside |-> Aggregate(Restrict(series, of(series, m)))]
  <2>1. DOMAIN daily(series) = days(series)
    OBVIOUS
  <2>2. {m \in DOMAIN daily(series) : start <= m /\ m < end} = inside
    BY <2>1
  <2>3. \A m \in inside : daily(series)[m] = Aggregate(Restrict(series, of(series, m)))
    OBVIOUS
  <2> HIDE DEF daily, inside
  <2> QED
    BY <2>2, <2>3 DEF ReadBars, Restrict
<1>7. daily(cut) = [m \in inside |-> Aggregate(Restrict(series, of(series, m)))]
  <2> HIDE DEF of, days, inside
  <2> QED
    BY <1>4, <1>5
<1>8. ResampleDaily(cut) = ReadBars(ResampleDaily(series), start, end)
  BY <1>2, <1>6, <1>7, Zenon
<1> QED
  BY <1>8 DEF start, end, cut

\* A backtest over dates gets the same daily bars whether the window is cut out of the minutes
\* or out of the days, whatever minutes of sessions from eight o'clock on are stored.
THEOREM WindowsCutWholeDays == ResearchSpec => []WindowsOfDaysAreWhole
<1>1. ASSUME StoreInv, interval = "m1", NEW s \in Symbols,
             NEW from \in {DateOf(t) : t \in DOMAIN store[s]} \cup {e + 1 : e \in {DateOf(t) : t \in DOMAIN store[s]}},
             NEW to \in {DateOf(t) : t \in DOMAIN store[s]} \cup {e + 1 : e \in {DateOf(t) : t \in DOMAIN store[s]}}
      PROVE  LoadBars(store[s], "m1", "day", from * DayMinutes, to * DayMinutes)
               = ReadBars(ResampleDaily(store[s]), from * DayMinutes, to * DayMinutes)
  <2>1. store[s] \in Series /\ \A t \in DOMAIN store[s] : MinuteOfDay(t) >= Shanghai
    BY <1>1 DEF StoreInv
  <2>2. \A t \in DOMAIN store[s] : DateOf(t) \in Int
    BY <2>1, SeriesHas, MorningsAreOfTheirDay
  <2>3. from \in Int /\ to \in Int
    BY <2>2
  <2>4. ResampleDaily(ReadBars(store[s], from * DayMinutes, to * DayMinutes))
          = ReadBars(ResampleDaily(store[s]), from * DayMinutes, to * DayMinutes)
    BY <2>1, <2>3, SameDaily
  <2> QED
    BY <2>4 DEF LoadBars, Resampled
<1>2. StoreInv => WindowsOfDaysAreWhole
  BY <1>1, Zenon DEF WindowsOfDaysAreWhole
<1> QED
  BY <1>2, StoreInvariant, PTL
-----------------------------------------------------------------------------
(* Minutes of coarser bars *)

MultipleIn(every, x, y) == \E z \in x + 1 .. y : z % every = 0
SameQuotient(every, x, y) == x \div every = y \div every

\* The quotients of two numbers differ exactly when a multiple comes after the one and not
\* after the other.
LEMMA MultipleBetween ==
  ASSUME NEW every \in {5, 30, 60}, NEW x \in Int, NEW y \in Int, x <= y
  PROVE  MultipleIn(every, x, y) <=> ~ SameQuotient(every, x, y)
<1>1. CASE every = 5
  <2>1. ASSUME NEW z \in x + 1 .. y, z % 5 = 0 PROVE x \div 5 # y \div 5
    BY <2>1
  <2>2. ASSUME x \div 5 # y \div 5
        PROVE  (y \div 5) * 5 \in x + 1 .. y /\ ((y \div 5) * 5) % 5 = 0
    BY <2>2
  <2> QED
    BY <1>1, <2>1, <2>2 DEF MultipleIn, SameQuotient
<1>2. CASE every = 30
  <2>1. ASSUME NEW z \in x + 1 .. y, z % 30 = 0 PROVE x \div 30 # y \div 30
    BY <2>1
  <2>2. ASSUME x \div 30 # y \div 30
        PROVE  (y \div 30) * 30 \in x + 1 .. y /\ ((y \div 30) * 30) % 30 = 0
    BY <2>2
  <2> QED
    BY <1>2, <2>1, <2>2 DEF MultipleIn, SameQuotient
<1>3. CASE every = 60
  <2>1. ASSUME NEW z \in x + 1 .. y, z % 60 = 0 PROVE x \div 60 # y \div 60
    BY <2>1
  <2>2. ASSUME x \div 60 # y \div 60
        PROVE  (y \div 60) * 60 \in x + 1 .. y /\ ((y \div 60) * 60) % 60 = 0
    BY <2>2
  <2> QED
    BY <1>3, <2>1, <2>2 DEF MultipleIn, SameQuotient
<1> QED
  BY <1>1, <1>2, <1>3

\* Two minutes are of one bar exactly when no bar of their session opens between them.
LEMMA BucketsAreUncut ==
  ASSUME NEW every \in {5, 30, 60}, NEW t \in Nat, NEW u \in Nat, t <= u
  PROVE  ~ Cut(t, u, every) <=> Bucket(u, every) = Bucket(t, every)
<1> DEFINE a == MinuteOfDay(t)
           b == MinuteOfDay(u)
           SessionOf(m) == IF m < LunchSplit THEN MorningOpen ELSE AfternoonOpen
           opens == \E m \in a + 1 .. b : (m - SessionOf(m)) % every = 0
<1>1. Cut(t, u, every) <=> DateOf(t) # DateOf(u) \/ opens
  BY Zenon DEF Cut
<1>2. Bucket(u, every) = Bucket(t, every)
        <=> /\ DateOf(u) = DateOf(t) /\ SessionOf(b) = SessionOf(a)
            /\ (b - SessionOf(b)) \div every = (a - SessionOf(a)) \div every
  BY DEF Bucket, SessionOpen
<1>3. a \in Int /\ b \in Int
  BY DEF MinuteOfDay, DayMinutes, Shanghai
<1>4. SUFFICES ASSUME DateOf(t) = DateOf(u)
               PROVE  opens <=> ~ (/\ SessionOf(b) = SessionOf(a)
                                   /\ (b - SessionOf(b)) \div every = (a - SessionOf(a)) \div every)
  BY <1>1, <1>2
<1>5. a <= b
  BY <1>4 DEF MinuteOfDay, DateOf, DayMinutes, Shanghai
<1> HIDE DEF a, b
<1>6. CASE SessionOf(a) = SessionOf(b)
  <2> DEFINE s == SessionOf(a)
  <2>1. s \in Int /\ \A m \in a + 1 .. b : SessionOf(m) = s
    BY <1>3, <1>6 DEF LunchSplit, MorningOpen, AfternoonOpen
  <2> HIDE DEF s
  <2>2. opens <=> \E m \in a + 1 .. b : (m - s) % every = 0
    BY <2>1
  <2>3. (\E m \in a + 1 .. b : (m - s) % every = 0) <=> \E z \in (a - s) + 1 .. (b - s) : z % every = 0
    <3>1. \A m \in a + 1 .. b : m - s \in (a - s) + 1 .. (b - s)
      BY <1>3, <2>1
    <3>2. \A z \in (a - s) + 1 .. (b - s) : z + s \in a + 1 .. b /\ (z + s) - s = z
      BY <1>3, <2>1
    <3> QED
      BY <3>1, <3>2
  <2>4. (\E z \in (a - s) + 1 .. (b - s) : z % every = 0) <=> (a - s) \div every # (b - s) \div every
    <3> DEFINE x == a - s
               y == b - s
    <3>1. x \in Int /\ y \in Int /\ x <= y
      BY <1>3, <1>5, <2>1
    <3> HIDE DEF x, y
    <3>2. MultipleIn(every, x, y) <=> ~ SameQuotient(every, x, y)
      BY <3>1, MultipleBetween
    <3> QED
      BY <3>2, Zenon DEF MultipleIn, SameQuotient, x, y
  <2> QED
    BY <1>6, <2>2, <2>3, <2>4 DEF s
<1>7. CASE SessionOf(a) # SessionOf(b)
  <2>1. LunchSplit \in a + 1 .. b
    BY <1>3, <1>5, <1>7 DEF LunchSplit, MorningOpen, AfternoonOpen
  <2>2. (LunchSplit - SessionOf(LunchSplit)) % every = 0
    BY DEF LunchSplit, MorningOpen, AfternoonOpen
  <2> QED
    BY <1>7, <2>1, <2>2
<1> QED
  BY <1>6, <1>7

-----------------------------------------------------------------------------
(* Sums of parts *)

\* A sum over a part of a set, as a sum of its own.
LEMMA SumOfPart ==
  ASSUME NEW S, IsFiniteSet(S), NEW f, NEW g, IsSum(g, f, S),
         NEW R \in SUBSET S, NEW v, NEW h, IsSum(h, v, R), \A x \in R : v[x] = f[x]
  PROVE  \A T \in SUBSET R : h[T] = g[T]
<1> DEFINE Bad == {T \in SUBSET R : h[T] # g[T]}
<1>1. SUFFICES ASSUME Bad # {} PROVE FALSE
  OBVIOUS
<1>2. \A T \in SUBSET S : IsFiniteSet(T) /\ Cardinality(T) \in Nat
  BY FS_Subset, FS_CardinalityType
<1>3. PICK T \in Bad : \A U \in Bad : Cardinality(T) <= Cardinality(U)
  <2>1. \A T \in Bad : IsFiniteSet(T)
    BY <1>2
  <2> HIDE DEF Bad
  <2> QED
    BY <1>1, <2>1, SmallestException
<1>4. T \in SUBSET R /\ T \in SUBSET S /\ h[T] # g[T]
  BY <1>3
<1>5. T # {}
  <2>1. g[{}] = 0 /\ h[{}] = 0
    BY DEF IsSum
  <2> QED
    BY <1>4, <2>1
<1> DEFINE x == Pick(T)
           U == T \ {x}
<1>6. x \in T
  BY <1>5, Zenon DEF Pick
<1>7. U \in SUBSET R /\ Cardinality(U) = Cardinality(T) - 1
  BY <1>2, <1>4, <1>6, FS_RemoveElement
<1>8. h[U] = g[U]
  <2>1. U \in Bad <=> h[U] # g[U]
    BY <1>7
  <2> HIDE DEF U, Bad
  <2>2. U \notin Bad
    BY <1>2, <1>3, <1>4, <1>7
  <2> QED
    BY <2>1, <2>2
<1>9. g[T] = f[x] + g[U] /\ h[T] = v[x] + h[U]
  BY <1>4, <1>5 DEF IsSum
<1> QED
  BY <1>4, <1>6, <1>8, <1>9

\* A sum of integers may be taken in any order.
LEMMA SumInAnyOrder ==
  ASSUME NEW S, IsFiniteSet(S), NEW f, \A x \in S : f[x] \in Int, NEW g, IsSum(g, f, S)
  PROVE  \A T \in SUBSET S : g[T] \in Int /\ \A y \in T : g[T] = f[y] + g[T \ {y}]
<1> DEFINE Fine(T) == g[T] \in Int /\ \A y \in T : g[T] = f[y] + g[T \ {y}]
           Bad == {T \in SUBSET S : ~ Fine(T)}
<1>1. SUFFICES ASSUME Bad # {} PROVE FALSE
  OBVIOUS
<1>2. \A T \in SUBSET S : IsFiniteSet(T) /\ Cardinality(T) \in Nat
  BY FS_Subset, FS_CardinalityType
<1>3. PICK T \in Bad : \A U \in Bad : Cardinality(T) <= Cardinality(U)
  BY <1>1, <1>2, SmallestException
<1>4. T \in SUBSET S /\ ~ Fine(T)
  BY <1>3
<1>5. g[{}] = 0
  BY DEF IsSum
<1>6. T # {}
  <2>1. Fine({})
    BY <1>5
  <2> QED
    BY <1>4, <2>1
<1> DEFINE x == Pick(T)
<1>7. x \in T
  BY <1>6, Zenon DEF Pick
<1>8. ASSUME NEW U \in SUBSET S, Cardinality(U) < Cardinality(T)
      PROVE  Fine(U)
  <2>1. U \in Bad <=> ~ Fine(U)
    OBVIOUS
  <2> HIDE DEF Bad, Fine
  <2>2. U \notin Bad
    BY <1>2, <1>3, <1>4, <1>8
  <2> QED
    BY <2>1, <2>2
<1>9. g[T] = f[x] + g[T \ {x}]
  BY <1>4, <1>6 DEF IsSum
<1> HIDE DEF x
<1>12. ASSUME NEW y \in T
       PROVE  /\ f[y] \in Int /\ T \ {y} \in SUBSET S /\ Cardinality(T \ {y}) < Cardinality(T)
              /\ Fine(T \ {y})
  <2>1. T \ {y} \in SUBSET S /\ Cardinality(T \ {y}) = Cardinality(T) - 1
    BY <1>2, <1>4, FS_RemoveElement
  <2>2. Cardinality(T \ {y}) < Cardinality(T)
    BY <1>2, <1>4, <2>1
  <2>3. Fine(T \ {y})
    BY <1>8, <2>1, <2>2
  <2> QED
    BY <1>4, <2>1, <2>2, <2>3
<1>10. g[T] \in Int
  <2>1. f[x] \in Int /\ g[T \ {x}] \in Int
    BY <1>7, <1>12
  <2> QED
    BY <1>9, <2>1
<1>11. ASSUME NEW y \in T, y # x
       PROVE  g[T] = f[y] + g[T \ {y}]
  <2> DEFINE rest == (T \ {x}) \ {y}
  <2>1. g[T \ {x}] = f[y] + g[rest]
    BY <1>7, <1>11, <1>12
  <2>2. g[T \ {y}] = f[x] + g[rest]
    <3>1. rest = (T \ {y}) \ {x} /\ x \in T \ {y}
      BY <1>7, <1>11
    <3>2. Fine(T \ {y})
      BY <1>11, <1>12
    <3> HIDE DEF rest
    <3> QED
      BY <3>1, <3>2
  <2>3. g[rest] \in Int
    <3>1. rest \in SUBSET S /\ Cardinality(rest) = Cardinality(T \ {x}) - 1
      BY <1>2, <1>7, <1>11, <1>12, FS_RemoveElement
    <3> HIDE DEF rest
    <3>2. Cardinality(rest) < Cardinality(T)
      <4>1. Cardinality(T) \in Nat /\ Cardinality(T \ {x}) \in Nat
        BY <1>2, <1>4, <1>7, <1>12
      <4>2. Cardinality(T \ {x}) < Cardinality(T)
        BY <1>7, <1>12
      <4> QED
        BY <3>1, <4>1, <4>2
    <3> QED
      BY <1>8, <3>1, <3>2
  <2>4. f[x] \in Int /\ f[y] \in Int
    BY <1>7, <1>12
  <2> HIDE DEF rest
  <2> QED
    BY <1>9, <2>1, <2>2, <2>3, <2>4
<1> QED
  BY <1>4, <1>9, <1>10, <1>11
LEMMA SumOfUnion ==
  ASSUME NEW S, IsFiniteSet(S), NEW f, \A x \in S : f[x] \in Int, NEW g, IsSum(g, f, S),
         NEW A \in SUBSET S
  PROVE  \A B \in SUBSET S : A \cap B = {} => g[A \cup B] = g[A] + g[B]
<1> DEFINE Fine(B) == A \cap B = {} => g[A \cup B] = g[A] + g[B]
           Bad == {B \in SUBSET S : ~ Fine(B)}
<1>1. SUFFICES ASSUME Bad # {} PROVE FALSE
  OBVIOUS
<1>2. \A T \in SUBSET S : IsFiniteSet(T) /\ Cardinality(T) \in Nat
  BY FS_Subset, FS_CardinalityType
<1>3. PICK B \in Bad : \A U \in Bad : Cardinality(B) <= Cardinality(U)
  <2>1. \A T \in Bad : IsFiniteSet(T)
    BY <1>2
  <2> HIDE DEF Bad
  <2> QED
    BY <1>1, <2>1, SmallestException
<1>4. B \in SUBSET S /\ A \cap B = {} /\ g[A \cup B] # g[A] + g[B]
  BY <1>3
<1>5. \A T \in SUBSET S : g[T] \in Int /\ \A y \in T : g[T] = f[y] + g[T \ {y}]
  BY SumInAnyOrder
<1>6. PICK y \in B : TRUE
  <2>1. SUFFICES ASSUME B = {} PROVE FALSE
    OBVIOUS
  <2>2. A \cup B = A /\ g[B] = 0 /\ g[A] \in Int
    BY <1>5, <2>1 DEF IsSum
  <2> QED
    BY <1>4, <2>2
<1> DEFINE U == B \ {y}
<1>7. U \in SUBSET S /\ Cardinality(U) = Cardinality(B) - 1 /\ A \cap U = {}
  BY <1>2, <1>4, <1>6, FS_RemoveElement
<1>8. (A \cup B) \ {y} = A \cup U /\ y \in A \cup B /\ A \cup B \in SUBSET S
  BY <1>4, <1>6
<1>9. g[B] = f[y] + g[U]
  BY <1>4, <1>5, <1>6
<1> HIDE DEF U
<1>10. g[A \cup U] = g[A] + g[U]
  <2>1. U \in Bad <=> ~ Fine(U)
    BY <1>7
  <2> HIDE DEF Bad, Fine
  <2>2. U \notin Bad
    BY <1>2, <1>3, <1>4, <1>7
  <2>3. Fine(U)
    BY <2>1, <2>2
  <2> QED
    BY <1>7, <2>3 DEF Fine
<1>11. g[A \cup B] = f[y] + g[A \cup U]
  BY <1>5, <1>8
<1>12. f[y] \in Int /\ g[A] \in Int /\ g[U] \in Int
  BY <1>4, <1>5, <1>6, <1>7
<1> QED
  BY <1>4, <1>9, <1>10, <1>11, <1>12

UnionOf(P, D) == UNION {P[t] : t \in D}

\* The sums of disjoint parts come to the sum of all of them.
LEMMA SumOfParts ==
  ASSUME NEW S, IsFiniteSet(S), NEW f, \A x \in S : f[x] \in Int, NEW g, IsSum(g, f, S),
         NEW C, IsFiniteSet(C), NEW P, \A t \in C : P[t] \in SUBSET S,
         \A t \in C, u \in C : t # u => P[t] \cap P[u] = {},
         NEW c, \A t \in C : c[t] = g[P[t]],
         NEW h, IsSum(h, c, C)
  PROVE  \A D \in SUBSET C : h[D] = g[UnionOf(P, D)]
<1> DEFINE Bad == {D \in SUBSET C : h[D] # g[UnionOf(P, D)]}
<1>1. SUFFICES ASSUME Bad # {} PROVE FALSE
  OBVIOUS
<1>2. \A T \in SUBSET C : IsFiniteSet(T) /\ Cardinality(T) \in Nat
  BY FS_Subset, FS_CardinalityType
<1>3. PICK D \in Bad : \A U \in Bad : Cardinality(D) <= Cardinality(U)
  <2>1. \A T \in Bad : IsFiniteSet(T)
    BY <1>2
  <2> HIDE DEF Bad
  <2> QED
    BY <1>1, <2>1, SmallestException
<1>4. D \in SUBSET C /\ h[D] # g[UnionOf(P, D)]
  BY <1>3
<1>5. D # {}
  <2>1. h[{}] = 0 /\ g[{}] = 0
    BY DEF IsSum
  <2>2. UnionOf(P, {}) = {}
    BY DEF UnionOf
  <2> QED
    BY <1>4, <2>1, <2>2
<1> DEFINE t == Pick(D)
           U == D \ {t}
<1>6. t \in D
  BY <1>5, Zenon DEF Pick
<1>7. U \in SUBSET C /\ Cardinality(U) = Cardinality(D) - 1
  BY <1>2, <1>4, <1>6, FS_RemoveElement
<1>8. h[U] = g[UnionOf(P, U)]
  <2>1. U \in Bad <=> h[U] # g[UnionOf(P, U)]
    BY <1>7
  <2> HIDE DEF U, Bad
  <2>2. U \notin Bad
    BY <1>2, <1>3, <1>4, <1>7
  <2> QED
    BY <2>1, <2>2
<1>9. h[D] = c[t] + h[U]
  BY <1>4, <1>5 DEF IsSum
<1>10. /\ UnionOf(P, D) = P[t] \cup UnionOf(P, U)
       /\ P[t] \cap UnionOf(P, U) = {}
       /\ P[t] \in SUBSET S /\ UnionOf(P, U) \in SUBSET S
  BY <1>4, <1>6 DEF UnionOf
<1>11. c[t] = g[P[t]]
  BY <1>4, <1>6
<1> HIDE DEF t, U
<1>12. g[UnionOf(P, D)] = g[P[t]] + g[UnionOf(P, U)]
  BY <1>10, SumOfUnion
<1> QED
  BY <1>4, <1>8, <1>9, <1>11, <1>12

VolumeOver(bars, T) == MapThenSumSet(LAMBDA t : bars[t].volume, T)

LEMMA VolumeIsSum ==
  ASSUME NEW bars, NEW S, IsFiniteSet(S), NEW f, \A t \in S : f[t] = bars[t].volume
  PROVE  \E g : IsSum(g, f, S) /\ VolumeOver(bars, S) = g[S]
<1> DEFINE raw(g) == g = [T \in SUBSET S |->
                            IF T = {} THEN 0
                            ELSE bars[CHOOSE x \in T : TRUE].volume + g[T \ {CHOOSE x \in T : TRUE}]]
<1>1. VolumeOver(bars, S) = (CHOOSE g : raw(g))[S]
  BY DEF VolumeOver, MapThenSumSet, MapThenFoldSet
<1>2. ASSUME NEW g
      PROVE  raw(g) <=> IsSum(g, f, S)
  <2>1. ASSUME NEW T \in SUBSET S, T # {}
        PROVE  f[Pick(T)] = bars[Pick(T)].volume
    <3>1. Pick(T) \in T
      BY <2>1, Zenon DEF Pick
    <3> QED
      BY <3>1
  <2> DEFINE left == [T \in SUBSET S |->
                        IF T = {} THEN 0 ELSE bars[Pick(T)].volume + g[T \ {Pick(T)}]]
             right == [T \in SUBSET S |-> IF T = {} THEN 0 ELSE f[Pick(T)] + g[T \ {Pick(T)}]]
  <2>2. left = right
    BY <2>1
  <2>3. raw(g) <=> g = left
    BY Zenon DEF Pick
  <2>4. IsSum(g, f, S) <=> g = right
    BY Zenon DEF IsSum
  <2> QED
    BY <2>2, <2>3, <2>4, Zenon
<1> HIDE DEF raw
<1>3. \E g : raw(g)
  BY <1>2, SumExists
<1>4. PICK g : g = (CHOOSE h : raw(h)) /\ raw(g)
  BY <1>3, Zenon
<1> QED
  BY <1>1, <1>2, <1>4
-----------------------------------------------------------------------------
(* Coarse bars *)

\* The volume of some bars is a natural number, the same wherever the bars are kept.
LEMMA VolumeOfPart ==
  ASSUME NEW series \in Series, NEW g, IsSum(g, [t \in DOMAIN series |-> series[t].volume], DOMAIN series),
         NEW T \in SUBSET DOMAIN series, NEW bars, \A t \in T : bars[t] = series[t]
  PROVE  VolumeOver(bars, T) = g[T] /\ g[T] \in Nat
<1> DEFINE S == DOMAIN series
           f == [t \in S |-> series[t].volume]
<1>1. IsFiniteSet(S) /\ IsFiniteSet(T) /\ \A t \in S : f[t] \in Nat
  BY SeriesHas, FS_Subset DEF Bar, Valid
<1>2. \A t \in T : f[t] = bars[t].volume
  OBVIOUS
<1> HIDE DEF S, f
<1>3. PICK k : IsSum(k, f, T) /\ VolumeOver(bars, T) = k[T]
  BY <1>1, <1>2, VolumeIsSum
<1>4. IsSum(g, f, S) /\ T \in SUBSET S
  BY DEF S, f
<1>5. k[T] = g[T]
  BY <1>1, <1>3, <1>4, SumOfPart
<1>6. \A R \in SUBSET S : g[R] \in Nat
  <2>1. \A y \in S : f[y] \in Nat /\ 0 * f[y] <= 0 * f[y]
    BY <1>1
  <2> QED
    BY <1>1, <1>4, <2>1, ScaledSums
<1> QED
  BY <1>3, <1>4, <1>5, <1>6

\* A bar of some bars: the open of the first, the close of the last, the extremes of all.
LEMMA AggregateHas ==
  ASSUME NEW bars \in Series, DOMAIN bars # {}
  PROVE  LET whole == Aggregate(bars)
         IN  /\ whole.open = bars[Min(DOMAIN bars)].open
             /\ whole.close = bars[Max(DOMAIN bars)].close
             /\ whole.volume = VolumeOver(bars, DOMAIN bars)
             /\ Valid(whole)
             /\ \A t \in DOMAIN bars : {bars[t].low, bars[t].high} \subseteq whole.low .. whole.high
<1> DEFINE times == DOMAIN bars
           open == bars[Min(times)].open
           close == bars[Max(times)].close
           lows == {bars[t].low : t \in times}
           highs == {bars[t].high : t \in times}
           volume == VolumeOver(bars, times)
           whole == Aggregate(bars)
<1>1. whole = [open |-> open, high |-> Max(highs), low |-> Min(lows), close |-> close, volume |-> volume]
  BY Zenon DEF Aggregate, VolumeOver
<1>2. /\ IsFiniteSet(times) /\ times \subseteq Int
      /\ \A t \in times : bars[t] \in Bar /\ Valid(bars[t])
  BY SeriesHas
<1>3. \A t \in times : /\ bars[t].low \in Int /\ bars[t].high \in Int
                       /\ bars[t].open \in bars[t].low .. bars[t].high
                       /\ bars[t].close \in bars[t].low .. bars[t].high
                       /\ bars[t].low <= bars[t].high
  BY <1>2 DEF Bar, Valid
<1>4. IsFiniteSet(lows) /\ IsFiniteSet(highs)
  <2>1. [t \in times |-> bars[t].low] \in Surjection(times, lows)
    BY DEF Surjection
  <2>2. [t \in times |-> bars[t].high] \in Surjection(times, highs)
    BY DEF Surjection
  <2> QED
    BY <1>2, <2>1, <2>2, FS_Surjection
<1>5. lows # {} /\ lows \subseteq Int /\ highs # {} /\ highs \subseteq Int
  BY <1>3
<1>6. Min(lows) \in Int /\ Max(highs) \in Int
  BY <1>4, <1>5, Extremes
<1>7. \A t \in times : Min(lows) <= bars[t].low /\ bars[t].high <= Max(highs)
  <2>1. (\A y \in lows : Min(lows) <= y) /\ (\A y \in highs : Max(highs) >= y)
    BY <1>4, <1>5, Extremes
  <2>2. \A t \in times : bars[t].low \in lows /\ bars[t].high \in highs
    OBVIOUS
  <2> HIDE DEF lows, highs
  <2> QED
    BY <1>3, <1>6, <2>1, <2>2
<1>8. Min(times) \in times /\ Max(times) \in times
  BY <1>2, Extremes
<1>9. volume >= 0
  <2>1. PICK g : IsSum(g, [t \in DOMAIN bars |-> bars[t].volume], DOMAIN bars)
    BY <1>2, SumExists
  <2>2. VolumeOver(bars, DOMAIN bars) = g[DOMAIN bars] /\ g[DOMAIN bars] \in Nat
    BY <2>1, VolumeOfPart
  <2> QED
    BY <2>2
<1> HIDE DEF lows, highs, volume
<1>10. \A t \in times : {bars[t].low, bars[t].high} \subseteq Min(lows) .. Max(highs)
  BY <1>3, <1>6, <1>7
<1>11. {open, close} \subseteq Min(lows) .. Max(highs) /\ Min(lows) <= Max(highs)
  BY <1>3, <1>6, <1>7, <1>8
<1> HIDE DEF open, close, whole
<1>12. /\ whole.open = open /\ whole.close = close /\ whole.volume = volume
       /\ whole.low = Min(lows) /\ whole.high = Max(highs)
  BY <1>1
<1>13. Valid(whole)
  BY <1>9, <1>11, <1>12 DEF Valid
<1> QED
  BY <1>10, <1>12, <1>13 DEF open, close, whole, volume

Group(series, every, t) == {u \in DOMAIN series : Bucket(u, every) = Bucket(t, every)}
Firsts(series, every) == {t \in DOMAIN series : t = Min(Group(series, every, t))}

Partitioned(series, every, times) ==
  /\ \A t \in times : t \in Group(series, every, t)
  /\ \A t \in times : \A u \in Group(series, every, t) : t <= u
  /\ \A t \in times, v \in times :
       t # v => Group(series, every, t) \cap Group(series, every, v) = {}
  /\ UNION {Group(series, every, t) : t \in times} = DOMAIN series

\* The groups of the first minutes are the parts of a partition.
LEMMA GroupsPartition ==
  ASSUME NEW series \in Series, NEW every
  PROVE  Partitioned(series, every, Firsts(series, every))
<1> DEFINE G(t) == Group(series, every, t)
           firsts == Firsts(series, every)
<1>1. ASSUME NEW t \in DOMAIN series
      PROVE  /\ t \in G(t) /\ Min(G(t)) \in G(t) /\ \A u \in G(t) : Min(G(t)) <= u
             /\ G(t) \in SUBSET DOMAIN series
  <2>1. t \in G(t) /\ G(t) \in SUBSET DOMAIN series
    BY DEF Group
  <2>2. IsFiniteSet(G(t)) /\ G(t) \subseteq Int
    BY <2>1, SeriesHas, FS_Subset
  <2> QED
    BY <2>1, <2>2, Extremes
<1>2. \A t \in DOMAIN series : \A u \in G(t) : G(u) = G(t)
  BY DEF Group
<1>3. firsts = {t \in DOMAIN series : t = Min(G(t))}
  BY DEF Firsts
<1>4. \A t \in DOMAIN series : Min(G(t)) \in firsts /\ t \in G(Min(G(t)))
  BY <1>1, <1>2, <1>3
<1>5. \A t \in firsts, v \in firsts : t # v => G(t) \cap G(v) = {}
  BY <1>2, <1>3
<1> HIDE DEF G, firsts
<1>6. UNION {G(t) : t \in firsts} = DOMAIN series
  <2>1. \A t \in firsts : t \in DOMAIN series
    BY <1>3
  <2> QED
    BY <1>1, <1>4, <2>1
<1>7. \A t \in firsts : t \in G(t) /\ \A u \in G(t) : t <= u
  BY <1>1, <1>3
<1> QED
  BY <1>5, <1>6, <1>7 DEF Partitioned, G, firsts
LEMMA CoarseHas ==
  ASSUME NEW series \in Series, NEW every
  PROVE  LET coarse == ResampleIntraday(series, every)
         IN  /\ DOMAIN coarse = Firsts(series, every)
             /\ \A t \in DOMAIN coarse :
                  coarse[t] = Aggregate(Restrict(series, Group(series, every, t)))
<1>1. ResampleIntraday(series, every)
        = [t \in Firsts(series, every) |-> Aggregate(Restrict(series, Group(series, every, t)))]
  BY Zenon DEF ResampleIntraday, Firsts, Group
<1> QED
  BY <1>1

\* Resampling keeps the volume.
LEMMA VolumeIsKept ==
  ASSUME NEW series \in Series, NEW every
  PROVE  LET coarse == ResampleIntraday(series, every)
         IN  VolumeOver(coarse, DOMAIN coarse) = VolumeOver(series, DOMAIN series)
<1> DEFINE S == DOMAIN series
           f == [t \in S |-> series[t].volume]
           coarse == ResampleIntraday(series, every)
           C == DOMAIN coarse
           P == [t \in C |-> Group(series, every, t)]
           c == [t \in C |-> coarse[t].volume]
<1>1. IsFiniteSet(S) /\ \A t \in S : f[t] \in Int
  BY SeriesHas DEF Bar
<1>2. C = Firsts(series, every) /\ C \in SUBSET S
  BY CoarseHas DEF Firsts
<1>3. /\ \A t \in C : P[t] \in SUBSET S /\ t \in P[t]
      /\ \A t \in C, u \in C : t # u => P[t] \cap P[u] = {}
      /\ UnionOf(P, C) = S
  <2>1. \A t \in C : P[t] = Group(series, every, t) /\ P[t] \in SUBSET S
    BY DEF Group
  <2>2. UnionOf(P, C) = UNION {Group(series, every, t) : t \in C}
    BY DEF UnionOf
  <2> HIDE DEF P, C
  <2>3. Partitioned(series, every, C)
    BY <1>2, GroupsPartition
  <2> QED
    BY <2>1, <2>2, <2>3 DEF Partitioned
<1>4. PICK g : IsSum(g, f, S)
  BY <1>1, SumExists
<1>5. ASSUME NEW t \in C
      PROVE  c[t] = g[P[t]]
  <2> DEFINE G == Group(series, every, t)
             part == Restrict(series, G)
  <2>1. G \in SUBSET S /\ G # {} /\ P[t] = G
    BY <1>3
  <2>2. part \in Series /\ DOMAIN part = G /\ \A u \in G : part[u] = series[u]
    BY <2>1, RestrictSeries DEF Restrict
  <2>3. c[t] = Aggregate(part).volume
    BY CoarseHas
  <2> HIDE DEF G, part, c, P, coarse
  <2>4. Aggregate(part).volume = VolumeOver(part, G)
    BY <2>1, <2>2, AggregateHas
  <2>5. VolumeOver(part, G) = g[G]
    BY <1>4, <2>1, <2>2, VolumeOfPart
  <2> QED
    BY <2>1, <2>3, <2>4, <2>5
<1>6. IsFiniteSet(C) /\ \A t \in C : c[t] = coarse[t].volume
  BY <1>1, <1>2, FS_Subset
<1>7. VolumeOver(series, S) = g[S]
  BY <1>4, VolumeOfPart
<1> HIDE DEF S, f, coarse, C, P, c
<1>8. PICK h : IsSum(h, c, C) /\ VolumeOver(coarse, C) = h[C]
  BY <1>6, VolumeIsSum
<1>9. h[C] = g[UnionOf(P, C)]
  BY <1>1, <1>3, <1>4, <1>5, <1>6, <1>8, SumOfParts
<1>10. VolumeOver(coarse, C) = VolumeOver(series, S)
  BY <1>3, <1>7, <1>8, <1>9
<1> QED
  BY <1>10 DEF coarse, C, S

\* A coarse bar is of the minutes from its own to the next cut.
LEMMA MinutesAreTheGroup ==
  ASSUME NEW series \in Series, NEW every \in {5, 30, 60}, NEW t \in Firsts(series, every)
  PROVE  {u \in DOMAIN series : t <= u /\ ~ Cut(t, u, every)} = Group(series, every, t)
<1>1. t \in DOMAIN series /\ \A u \in DOMAIN series : u \in Nat
  BY SeriesHas DEF Firsts
<1>2. \A u \in Group(series, every, t) : t <= u
  BY GroupsPartition DEF Partitioned
<1>3. ASSUME NEW u \in DOMAIN series, t <= u
      PROVE  ~ Cut(t, u, every) <=> Bucket(u, every) = Bucket(t, every)
  BY <1>1, <1>3, BucketsAreUncut
<1> QED
  BY <1>2, <1>3 DEF Group

HoldsItsMinutes(series, coarse, every) ==
  LET minutes(t) == {u \in DOMAIN series : t <= u /\ ~ Cut(t, u, every)}
  IN  /\ UNION {minutes(t) : t \in DOMAIN coarse} = DOMAIN series
      /\ \A t \in DOMAIN coarse :
           /\ minutes(t) \cap DOMAIN coarse = {t}
           /\ coarse[t].open = series[t].open
           /\ coarse[t].close = series[Max(minutes(t))].close
           /\ Valid(coarse[t])
           /\ \A u \in minutes(t) : {series[u].low, series[u].high}
                                      \subseteq coarse[t].low .. coarse[t].high

LEMMA CoarseIsOfItsMinutes ==
  ASSUME NEW series \in Series, NEW every \in {5, 30, 60}
  PROVE  HoldsItsMinutes(series, ResampleIntraday(series, every), every)
<1> DEFINE coarse == ResampleIntraday(series, every)
           C == DOMAIN coarse
           minutes(t) == {u \in DOMAIN series : t <= u /\ ~ Cut(t, u, every)}
           G(t) == Group(series, every, t)
<1>1. C = Firsts(series, every)
  BY CoarseHas
<1>2. \A t \in C : minutes(t) = G(t)
  BY <1>1, MinutesAreTheGroup
<1>3. /\ UNION {G(t) : t \in C} = DOMAIN series
      /\ \A t \in C : t \in G(t)
      /\ \A t \in C, v \in C : t # v => G(t) \cap G(v) = {}
  <2> HIDE DEF C
  <2>1. Partitioned(series, every, C)
    BY <1>1, GroupsPartition
  <2> QED
    BY <2>1 DEF Partitioned
<1>4. \A t \in C : G(t) \cap C = {t}
  BY <1>3
<1>5. ASSUME NEW t \in C
      PROVE  /\ coarse[t].open = series[t].open
             /\ coarse[t].close = series[Max(G(t))].close
             /\ Valid(coarse[t])
             /\ \A u \in G(t) : {series[u].low, series[u].high}
                                  \subseteq coarse[t].low .. coarse[t].high
  <2> DEFINE part == Restrict(series, G(t))
  <2>1. G(t) \in SUBSET DOMAIN series /\ G(t) # {}
    BY <1>3 DEF Group
  <2>2. part \in Series /\ DOMAIN part = G(t) /\ \A u \in G(t) : part[u] = series[u]
    BY <2>1, RestrictSeries DEF Restrict
  <2>3. coarse[t] = Aggregate(part)
    BY CoarseHas
  <2>4. IsFiniteSet(G(t)) /\ G(t) \subseteq Int
    BY <2>1, SeriesHas, FS_Subset
  <2>5. Min(G(t)) = t /\ Max(G(t)) \in G(t)
    BY <1>1, <2>1, <2>4, Extremes DEF Firsts
  <2> HIDE DEF part, coarse, C, G
  <2> QED
    BY <1>3, <2>1, <2>2, <2>3, <2>5, AggregateHas
<1>6. UNION {minutes(t) : t \in C} = UNION {G(t) : t \in C}
  <2> HIDE DEF minutes, G, C
  <2> QED
    BY <1>2
<1>7. UNION {minutes(t) : t \in C} = DOMAIN series
  BY <1>3, <1>6, Zenon
<1>8. ASSUME NEW t \in C
      PROVE  /\ minutes(t) \cap C = {t}
             /\ coarse[t].open = series[t].open
             /\ coarse[t].close = series[Max(minutes(t))].close
             /\ Valid(coarse[t])
             /\ \A u \in minutes(t) : {series[u].low, series[u].high}
                                        \subseteq coarse[t].low .. coarse[t].high
  <2>1. minutes(t) = G(t)
    BY <1>2
  <2> HIDE DEF minutes, G, coarse, C
  <2> QED
    BY <1>4, <1>5, <2>1
<1> QED
  BY <1>7, <1>8, Zenon DEF HoldsItsMinutes

\* Every minute is in one coarse bar and no bar crosses lunch or a night; a bar has the open
\* of its first minute, the close of its last, the extremes of all, and no volume is lost or
\* counted twice, in whatever order the minutes came and whatever gaps they have.
THEOREM CoarseBarsHoldTheirMinutes == ResearchSpec => []CoarseBarsAreTheirMinutes
<1>1. ASSUME StoreInv, NEW s \in Symbols, NEW target \in {"m5", "m30", "m60"},
             NEW coarse, coarse = Resampled(store[s], "m1", target)
      PROVE  /\ HoldsItsMinutes(store[s], coarse, Minutes[target])
             /\ VolumeOver(coarse, DOMAIN coarse) = VolumeOver(store[s], DOMAIN store[s])
  <2> DEFINE every == Minutes[target]
  <2>1. store[s] \in Series
    BY <1>1 DEF StoreInv
  <2>2. every \in {5, 30, 60}
    BY DEF Minutes
  <2>3. coarse = ResampleIntraday(store[s], every)
    BY <1>1 DEF Resampled
  <2> HIDE DEF every
  <2>4. HoldsItsMinutes(store[s], coarse, every)
    BY <2>1, <2>2, <2>3, CoarseIsOfItsMinutes
  <2>5. VolumeOver(coarse, DOMAIN coarse) = VolumeOver(store[s], DOMAIN store[s])
    BY <2>1, <2>3, VolumeIsKept
  <2> QED
    BY <2>4, <2>5 DEF every
<1>2. StoreInv => CoarseBarsAreTheirMinutes
  <2> SUFFICES ASSUME StoreInv, NEW s \in Symbols, NEW target \in {"m5", "m30", "m60"}
               PROVE  LET coarse == Resampled(store[s], "m1", target)
                      IN  /\ HoldsItsMinutes(store[s], coarse, Minutes[target])
                          /\ VolumeOver(coarse, DOMAIN coarse) = VolumeOver(store[s], DOMAIN store[s])
    BY Zenon DEF CoarseBarsAreTheirMinutes, VolumeOver, HoldsItsMinutes
  <2> QED
    BY <1>1
<1> QED
  BY <1>2, StoreInvariant, PTL
-----------------------------------------------------------------------------
(* Young names *)

\* A filter that bounds a column fails a row without it, whatever it is ANDed with.
LEMMA BoundsExcludeNulls ==
  ASSUME NEW row, NEW c, row[c] = Null, NEW low, NEW high, NEW l, NEW r
  PROVE  ~ Filled(Both(Both(InRange(row, c, low, high), l), r))
<1>1. ASSUME NEW x \in {"null", "false"}, NEW y
      PROVE  Both(x, y) \in {"null", "false"}
  BY DEF Both
<1>2. Compared(row[c], row[c] >= low) = "null"
  BY Zenon DEF Compared
<1>3. InRange(row, c, low, high) \in {"null", "false"}
  BY <1>1, <1>2, Zenon DEF InRange, AtLeast
<1>4. Both(Both(InRange(row, c, low, high), l), r) \in {"null", "false"}
  BY <1>1, <1>3
<1> QED
  BY <1>4 DEF Filled

\* Of the rows picked each passed the filters.
LEMMA PicksPassed ==
  ASSUME NEW bars, NEW d, NEW picks \in PicksAsOf(bars, d), NEW row \in picks
  PROVE  Filled(Mask(row))
<1> DEFINE F == Survivors(BuildFeatures(bars, Symbols, d, Lookback))
           scored == {[row |-> r, score |-> Score(F, r)] : r \in F}
<1>1. picks \in TopSets(F)
  BY Zenon DEF PicksAsOf
<1>2. \E P \in SUBSET scored : picks = {p.row : p \in P}
  BY <1>1, Zenon DEF TopSets
<1>3. \A r \in F : Filled(Mask(r))
  BY Zenon DEF Survivors
<1> HIDE DEF F
<1>4. \A p \in scored : p.row \in F
  OBVIOUS
<1> HIDE DEF scored
<1> QED
  BY <1>2, <1>3, <1>4

\* A row with a volatility is of a name with two bars or more before the date.
LEMMA OldEnough ==
  ASSUME \A window \in Series : Cardinality(DOMAIN window) < 2 => Volatility(window) = Null,
         NEW bars \in [Symbols -> Series], NEW d, NEW row \in BuildFeatures(bars, Symbols, d, Lookback),
         row.volatility # Null
  PROVE  Cardinality(DOMAIN KnownAt(bars[row.symbol], d)) > 1
<1>1. PICK w \in Windows(bars, Symbols, d, Lookback) : row = Joined(OhlcvFeatures(w.symbol, w.bars))
  BY Zenon DEF BuildFeatures
<1>2. PICK s \in Symbols : w = [symbol |-> s, bars |-> Trailing(KnownAt(bars[s], d), Lookback)]
  BY Zenon DEF Windows
<1> DEFINE known == KnownAt(bars[s], d)
           window == Trailing(known, Lookback)
           own == OhlcvFeatures(s, window)
           volatility == Number(window, Volatility(window))
<1>3. known \in Series
  BY RestrictSeries DEF KnownAt, ReadBars
<1>4. window \in Series /\ DOMAIN window \subseteq DOMAIN known
  <2> DEFINE times == {t \in DOMAIN known : Cardinality({u \in DOMAIN known : u > t}) < Lookback}
  <2> HIDE DEF known
  <2>1. window = Restrict(known, times) /\ times \in SUBSET DOMAIN known
    BY Zenon DEF Trailing
  <2> HIDE DEF times, window
  <2> QED
    BY <1>3, <2>1, RestrictSeries
<1>5. /\ {"symbol", "volatility"} \subseteq DOMAIN own
      /\ own.symbol = s /\ own.volatility = volatility
  <2> HIDE DEF window
  <2> QED
    BY DEF OhlcvFeatures
<1>6. w.symbol = s /\ w.bars = window
  BY <1>2
<1> HIDE DEF own, window, known
<1>7. row = Joined(own)
  BY <1>1, <1>6, Zenon DEF own
<1>8. row.symbol = s /\ row.volatility = volatility
  BY <1>5, <1>7, OwnColumns
<1>9. Volatility(window) # Null
  BY <1>8, Zenon DEF Number
<1>10. ~ Cardinality(DOMAIN window) < 2
  BY <1>4, <1>9
<1>11. Cardinality(DOMAIN window) <= Cardinality(DOMAIN known)
       /\ Cardinality(DOMAIN window) \in Nat /\ Cardinality(DOMAIN known) \in Nat
  BY <1>3, <1>4, SeriesHas, FS_Subset, FS_CardinalityType
<1>12. Cardinality(DOMAIN known) > 1
  BY <1>10, <1>11
<1> QED
  BY <1>8, <1>12 DEF known

\* A mask that is a bound of the volatility ANDed with the rest, whatever that is, at a row.
BoundsVolatility(row, low, high) ==
  \E rest \in {"true", "false", "null"} :
    \/ Mask(row) = Both(AtLeast(row, "volatility", low), rest)
    \/ Mask(row) = Both(AtMost(row, "volatility", high), rest)

\* No row without a volatility passes such a mask once it is filled.
LEMMA NoVolatilityNoPass ==
  ASSUME NEW row, NEW low, NEW high, BoundsVolatility(row, low, high), Filled(Mask(row))
  PROVE  row.volatility # Null
<1> SUFFICES ASSUME row.volatility = Null PROVE FALSE
  OBVIOUS
<1>1. row["volatility"] = Null
  OBVIOUS
<1>2. /\ AtLeast(row, "volatility", low) = "null"
      /\ AtMost(row, "volatility", high) = "null"
  BY <1>1, Zenon DEF AtLeast, AtMost, Compared
<1>3. \A rest : Both("null", rest) # "true"
  BY DEF Both
<1>4. Mask(row) # "true"
  BY <1>2, <1>3, Zenon DEF BoundsVolatility
<1> QED
  BY <1>4 DEF Filled

\* From filters one of which bounds the volatility, from below or above, and a deviation
\* that takes two bars or more, no name too young to have one takes a slot of the top N,
\* whatever the other filters, the score and the bars.
THEOREM YoungNamesStayOut ==
  ASSUME NEW low, NEW high, \A row : BoundsVolatility(row, low, high),
         \A window \in Series : Cardinality(DOMAIN window) < 2 => Volatility(window) = Null
  PROVE  ResearchSpec => []YoungNamesTakeNoSlot
<1>1. ASSUME StoreInv, NEW d, NEW picks \in PicksAsOf(store, d), NEW row \in picks
      PROVE  Cardinality(DOMAIN Before(row.symbol, d)) > 1
  <2>1. row \in BuildFeatures(store, Symbols, d, Lookback) /\ row.volatility # Null
    BY PicksAreRows, PicksPassed, NoVolatilityNoPass
  <2>2. store \in [Symbols -> Series]
    BY <1>1 DEF StoreInv
  <2>3. Cardinality(DOMAIN KnownAt(store[row.symbol], d)) > 1
    BY <2>1, <2>2, OldEnough
  <2> QED
    BY <2>3, Zenon DEF Before, KnownAt
<1>2. StoreInv => YoungNamesTakeNoSlot
  BY <1>1, Zenon DEF YoungNamesTakeNoSlot
<1> QED
  BY <1>2, StoreInvariant, PTL

-----------------------------------------------------------------------------
(* Joining sequences *)

\* What holds at 0 and from each number to the next holds up to n.
LEMMA UpToN ==
  ASSUME NEW n \in Nat, NEW Good, 0 \in Good,
         \A k \in 1 .. n : k - 1 \in Good => k \in Good
  PROVE  \A k \in 0 .. n : k \in Good
<1> DEFINE Bad == {k \in 0 .. n : k \notin Good}
<1>1. SUFFICES ASSUME Bad # {} PROVE FALSE
  OBVIOUS
<1>2. Bad \in SUBSET Nat
  OBVIOUS
<1>3. PICK m \in Bad : \A k \in Bad : m <= k
  <2> HIDE DEF Bad
  <2> QED
    BY <1>1, <1>2, LeastNatural
<1>4. m \in 1 .. n /\ m \notin Good
  BY <1>3
<1>5. m - 1 \notin Bad /\ m - 1 \in 0 .. n
  BY <1>3, <1>4
<1> QED
  BY <1>4, <1>5

\* An element appended to two sequences joined is appended to the second.
AppendsInside(a, b, x) == Append(a \o b, x) = a \o Append(b, x)

LEMMA AppendInside ==
  ASSUME NEW S
  PROVE  \A a, b \in Seq(S), x \in S : AppendsInside(a, b, x)
BY DEF AppendsInside

\* Joined with nothing it stays what it is.
Unjoined(q) == q \o <<>> = q /\ <<>> \o q = q

LEMMA NothingJoined ==
  ASSUME NEW S
  PROVE  \A q \in Seq(S) : Unjoined(q)
BY DEF Unjoined

\* f[i] is the first i parts joined.
IsJoin(f, parts, S, n) ==
  /\ f \in [0 .. n -> Seq(S)] /\ f[0] = <<>>
  /\ \A i \in 1 .. n : f[i] = f[i - 1] \o parts[i]

LEMMA JoinExists ==
  ASSUME NEW S, NEW parts \in Seq(Seq(S)), NEW n \in Nat, n = Len(parts)
  PROVE  \E f : IsJoin(f, parts, S, n)
<1> DEFINE Good == {m \in 0 .. n : \E f : IsJoin(f, parts, S, m)}
<1>1. 0 \in Good
  <2>1. [i \in 0 .. 0 |-> <<>>] \in [0 .. 0 -> Seq(S)] /\ 1 .. 0 = {}
    OBVIOUS
  <2>2. IsJoin([i \in 0 .. 0 |-> <<>>], parts, S, 0)
    BY <2>1 DEF IsJoin
  <2> QED
    BY <2>2
<1>2. ASSUME NEW k \in 1 .. n, k - 1 \in Good
      PROVE  k \in Good
  <2>1. PICK f : IsJoin(f, parts, S, k - 1)
    BY <1>2
  <2> DEFINE g == [i \in 0 .. k |-> IF i = k THEN f[k - 1] \o parts[k] ELSE f[i]]
  <2>2. f \in [0 .. k - 1 -> Seq(S)] /\ parts[k] \in Seq(S)
    BY <2>1 DEF IsJoin
  <2>3. f[k - 1] \o parts[k] \in Seq(S)
    BY <2>2
  <2>4. g \in [0 .. k -> Seq(S)]
    BY <2>2, <2>3
  <2>5. g[0] = <<>>
    BY <2>1 DEF IsJoin
  <2>6. ASSUME NEW i \in 1 .. k
        PROVE  g[i] = g[i - 1] \o parts[i]
    <3>1. i \in 0 .. k /\ i - 1 \in 0 .. k /\ i - 1 # k
      OBVIOUS
    <3>2. g[i - 1] = f[i - 1]
      BY <3>1
    <3>3. CASE i = k
      BY <3>1, <3>2, <3>3
    <3>4. CASE i # k
      <4>1. i \in 1 .. k - 1
        BY <3>4
      <4>2. f[i] = f[i - 1] \o parts[i]
        BY <2>1, <4>1 DEF IsJoin
      <4> QED
        BY <3>1, <3>2, <3>4, <4>2
    <3> QED
      BY <3>3, <3>4
  <2> HIDE DEF g
  <2>7. IsJoin(g, parts, S, k)
    BY <2>4, <2>5, <2>6 DEF IsJoin
  <2> QED
    BY <2>7
<1> HIDE DEF Good
<1>3. n \in Good
  <2>1. \A k \in 1 .. n : k - 1 \in Good => k \in Good
    BY <1>2
  <2>2. \A k \in 0 .. n : k \in Good
    BY <1>1, <2>1, UpToN
  <2> QED
    BY <2>2
<1> QED
  BY <1>3 DEF Good

LEMMA FlattenStepByStep ==
  ASSUME NEW S, NEW parts \in Seq(Seq(S)), NEW n \in Nat, n = Len(parts)
  PROVE  \E f : IsJoin(f, parts, S, n) /\ FlattenSeq(parts) = f[n]
<1>1. PICK f : IsJoin(f, parts, S, n)
  BY JoinExists
<1>2. CASE n = 0
  <2>1. FlattenSeq(parts) = parts
    BY <1>2, Zenon DEF FlattenSeq
  <2>2. parts = <<>>
    BY <1>2, EmptySeq
  <2> QED
    BY <1>1, <1>2, <2>1, <2>2 DEF IsJoin
<1>3. CASE n # 0
  <2> DEFINE raw(g) == g = [i \in 1 .. n |-> IF i = 1 THEN parts[i] ELSE g[i - 1] \o parts[i]]
  <2>1. FlattenSeq(parts) = (CHOOSE g : raw(g))[n]
    <3>1. FlattenSeq(parts) =
            (CHOOSE g : g = [i \in 1 .. Len(parts) |->
                               IF i = 1 THEN parts[i] ELSE g[i - 1] \o parts[i]])[Len(parts)]
      BY <1>3, Zenon DEF FlattenSeq
    <3> QED
      BY <3>1, Zenon
  <2>2. raw([i \in 1 .. n |-> f[i]])
    <3>1. f[1] = parts[1]
      <4>1. 1 \in 1 .. n /\ 1 - 1 = 0
        BY <1>3
      <4>2. f[1] = f[1 - 1] \o parts[1] /\ f[0] = <<>>
        BY <1>1, <4>1 DEF IsJoin
      <4>3. parts[1] \in Seq(S)
        BY <4>1, ElementOfSeq
      <4>4. <<>> \o parts[1] = parts[1]
        BY <4>3, ConcatEmptySeq
      <4> QED
        BY <4>1, <4>2, <4>4
    <3> DEFINE g == [i \in 1 .. n |-> f[i]]
    <3>2. ASSUME NEW i \in 1 .. n
          PROVE  g[i] = IF i = 1 THEN parts[i] ELSE g[i - 1] \o parts[i]
      <4>1. CASE i = 1
        BY <3>1, <4>1
      <4>2. CASE i # 1
        <5>1. i - 1 \in 1 .. n
          BY <4>2
        <5>2. f[i] = f[i - 1] \o parts[i]
          BY <1>1 DEF IsJoin
        <5> QED
          BY <4>2, <5>1, <5>2
      <4> QED
        BY <4>1, <4>2
    <3>3. g = [i \in 1 .. n |-> g[i]]
      OBVIOUS
    <3> HIDE DEF g
    <3>4. raw(g)
      BY <3>2, <3>3
    <3> QED
      BY <3>4 DEF g
  <2>3. PICK g : g = (CHOOSE h : raw(h)) /\ raw(g)
    <3> HIDE DEF raw
    <3> QED
      BY <2>2, Zenon
  <2> DEFINE Good == {k \in 0 .. n : k > 0 => g[k] = f[k]}
  <2>4. ASSUME NEW k \in 1 .. n, k - 1 \in Good
        PROVE  k \in Good
    <3>1. g[k] = IF k = 1 THEN parts[k] ELSE g[k - 1] \o parts[k]
      BY <2>3
    <3>2. f[k] = f[k - 1] \o parts[k]
      BY <1>1 DEF IsJoin
    <3>3. CASE k = 1
      <4>1. k - 1 = 0 /\ f[0] = <<>>
        BY <1>1, <3>3 DEF IsJoin
      <4>2. parts[k] \in Seq(S)
        BY ElementOfSeq
      <4>3. <<>> \o parts[k] = parts[k]
        BY <4>2, ConcatEmptySeq
      <4>4. f[k] = parts[k]
        BY <3>2, <4>1, <4>3
      <4> QED
        BY <3>1, <3>3, <4>4
    <3>4. CASE k # 1
      <4>1. k - 1 > 0 /\ g[k - 1] = f[k - 1]
        BY <2>4, <3>4
      <4>2. g[k] = f[k]
        BY <3>1, <3>2, <3>4, <4>1, Zenon
      <4> QED
        BY <4>2
    <3> QED
      BY <3>3, <3>4
  <2>5. 0 \in Good
    OBVIOUS
  <2> HIDE DEF Good
  <2>6. n \in Good
    <3>1. \A k \in 0 .. n : k \in Good
      BY <2>4, <2>5, UpToN
    <3> QED
      BY <3>1
  <2>7. g[n] = f[n]
    BY <1>3, <2>6 DEF Good
  <2> QED
    BY <1>1, <2>1, <2>3, <2>7
<1> QED
  BY <1>2, <1>3

-----------------------------------------------------------------------------
(* The members at some places *)

IsPick(f, s, P, S) ==
  /\ f \in [0 .. Len(s) -> Seq(S)] /\ f[0] = <<>>
  /\ \A k \in 1 .. Len(s) : f[k] = IF k \in P THEN Append(f[k - 1], s[k]) ELSE f[k - 1]

LEMMA ThoseStepByStep ==
  ASSUME NEW S, NEW s \in Seq(S), NEW P
  PROVE  \E f : IsPick(f, s, P, S) /\ Those(s, P) = f[Len(s)]
<1> DEFINE parts == [k \in DOMAIN s |-> IF k \in P THEN <<s[k]>> ELSE <<>>]
<1>1. parts \in Seq(Seq(S)) /\ Len(parts) = Len(s) /\ Len(s) \in Nat
  <2>1. Len(s) \in Nat /\ DOMAIN s = 1 .. Len(s) /\ \A k \in 1 .. Len(s) : s[k] \in S
    BY LenProperties, ElementOfSeq
  <2>2. <<>> \in Seq(S) /\ \A x \in S : <<x>> \in Seq(S)
    OBVIOUS
  <2>3. parts \in [1 .. Len(s) -> Seq(S)]
    BY <2>1, <2>2
  <2> HIDE DEF parts
  <2> QED
    BY <2>1, <2>3
<1>2. Those(s, P) = FlattenSeq(parts)
  BY DEF Those
<1>3. \A k \in 1 .. Len(s) : parts[k] = IF k \in P THEN <<s[k]>> ELSE <<>>
  OBVIOUS
<1> HIDE DEF parts
<1>4. PICK f : IsJoin(f, parts, S, Len(s)) /\ FlattenSeq(parts) = f[Len(s)]
  BY <1>1, FlattenStepByStep
<1>5. ASSUME NEW k \in 1 .. Len(s)
      PROVE  f[k] = IF k \in P THEN Append(f[k - 1], s[k]) ELSE f[k - 1]
  <2>0. s[k] \in S /\ k - 1 \in 0 .. Len(s)
    BY <1>1, ElementOfSeq
  <2>1. f[k] = f[k - 1] \o parts[k] /\ f[k - 1] \in Seq(S) /\ s[k] \in S
    BY <1>4, <2>0 DEF IsJoin
  <2>2. f[k - 1] \o <<>> = f[k - 1] /\ f[k - 1] \o <<s[k]>> = Append(f[k - 1], s[k])
    BY <2>1
  <2> QED
    BY <1>3, <2>1, <2>2
<1> QED
  BY <1>2, <1>4, <1>5 DEF IsPick, IsJoin

\* The members at no place, at every place, at one place.
LEMMA ThoseAtNoPlace ==
  ASSUME NEW S, NEW s \in Seq(S), NEW P, \A k \in DOMAIN s : k \notin P
  PROVE  Those(s, P) = <<>>
<1>1. PICK f : IsPick(f, s, P, S) /\ Those(s, P) = f[Len(s)]
  BY ThoseStepByStep
<1>2. Len(s) \in Nat /\ DOMAIN s = 1 .. Len(s)
  BY LenProperties
<1> DEFINE Good == {k \in 0 .. Len(s) : f[k] = <<>>}
<1>3. \A k \in 1 .. Len(s) : k - 1 \in Good => k \in Good
  BY <1>1, <1>2 DEF IsPick
<1>4. 0 \in Good
  BY <1>1, <1>2 DEF IsPick
<1> HIDE DEF Good
<1>5. Len(s) \in Good
  <2>1. \A k \in 0 .. Len(s) : k \in Good
    BY <1>2, <1>3, <1>4, UpToN
  <2> QED
    BY <1>2, <2>1
<1> QED
  BY <1>1, <1>5 DEF Good

LEMMA ThoseAtAllPlaces ==
  ASSUME NEW S, NEW s \in Seq(S), NEW P, DOMAIN s \subseteq P
  PROVE  Those(s, P) = s
<1>1. PICK f : IsPick(f, s, P, S) /\ Those(s, P) = f[Len(s)]
  BY ThoseStepByStep
<1>2. Len(s) \in Nat /\ DOMAIN s = 1 .. Len(s)
  BY LenProperties
<1> DEFINE Good == {k \in 0 .. Len(s) : f[k] = SubSeq(s, 1, k)}
<1>3. ASSUME NEW k \in 1 .. Len(s), k - 1 \in Good
      PROVE  k \in Good
  <2>1. f[k] = Append(f[k - 1], s[k])
    BY <1>1, <1>2 DEF IsPick
  <2>2. f[k - 1] = SubSeq(s, 1, k - 1) /\ f[k - 1] \in Seq(S) /\ s[k] \in S
    BY <1>1, <1>2, <1>3, ElementOfSeq DEF IsPick
  <2>3. SubSeq(s, 1, k) = SubSeq(s, 1, k - 1) \o <<s[k]>>
    BY <1>2, SubSeqRecursiveSecond
  <2>4. Append(f[k - 1], s[k]) = f[k - 1] \o <<s[k]>>
    BY <2>2, AppendIsConcat
  <2>5. f[k] = SubSeq(s, 1, k)
    BY <2>1, <2>2, <2>3, <2>4, Zenon
  <2> QED
    BY <2>5
<1>4. 0 \in Good
  BY <1>1, <1>2, SubSeqEmpty DEF IsPick
<1> HIDE DEF Good
<1>5. Len(s) \in Good
  <2>1. \A k \in 0 .. Len(s) : k \in Good
    BY <1>2, <1>3, <1>4, UpToN
  <2> QED
    BY <1>2, <2>1
<1>6. SubSeq(s, 1, Len(s)) = s
  BY SubSeqFull
<1> QED
  BY <1>1, <1>5, <1>6 DEF Good

LEMMA ThoseAtOnePlace ==
  ASSUME NEW S, NEW s \in Seq(S), NEW j \in DOMAIN s, NEW P, \A k \in DOMAIN s : k \in P <=> k = j
  PROVE  Those(s, P) = <<s[j]>>
<1>1. PICK f : IsPick(f, s, P, S) /\ Those(s, P) = f[Len(s)]
  BY ThoseStepByStep
<1>2. Len(s) \in Nat /\ DOMAIN s = 1 .. Len(s) /\ j \in 1 .. Len(s)
  BY LenProperties
<1> DEFINE Good == {k \in 0 .. Len(s) : f[k] = IF j <= k THEN <<s[j]>> ELSE <<>>}
<1>3. ASSUME NEW k \in 1 .. Len(s), k - 1 \in Good
      PROVE  k \in Good
  <2>1. f[k] = IF k = j THEN Append(f[k - 1], s[k]) ELSE f[k - 1]
    BY <1>1, <1>2 DEF IsPick
  <2>2. f[k - 1] = IF j <= k - 1 THEN <<s[j]>> ELSE <<>>
    BY <1>3
  <2>3. CASE k = j
    <3>1. f[k - 1] = <<>>
      BY <1>2, <2>2, <2>3
    <3>2. Append(<<>>, s[k]) = <<s[k]>>
      OBVIOUS
    <3>3. f[k] = <<s[j]>>
      BY <2>1, <2>3, <3>1, <3>2, Zenon
    <3> QED
      BY <1>2, <2>3, <3>3
  <2>4. CASE k # j
    BY <1>2, <2>1, <2>2, <2>4
  <2> QED
    BY <2>3, <2>4
<1>4. 0 \in Good
  BY <1>1, <1>2 DEF IsPick
<1> HIDE DEF Good
<1>5. Len(s) \in Good
  <2>1. \A k \in 0 .. Len(s) : k \in Good
    BY <1>2, <1>3, <1>4, UpToN
  <2> QED
    BY <1>2, <2>1
<1> QED
  BY <1>1, <1>2, <1>5 DEF Good

\* Of two sequences joined, those of the first and then those of the second.
LEMMA ThoseOfConcat ==
  ASSUME NEW S, NEW s \in Seq(S), NEW t \in Seq(S), NEW P, NEW Q, NEW R,
         \A k \in DOMAIN s : k \in R <=> k \in P,
         \A k \in DOMAIN t : Len(s) + k \in R <=> k \in Q
  PROVE  Those(s \o t, R) = Those(s, P) \o Those(t, Q)
<1>1. /\ Len(s) \in Nat /\ DOMAIN s = 1 .. Len(s)
      /\ Len(t) \in Nat /\ DOMAIN t = 1 .. Len(t)
  BY LenProperties
<1>2. /\ s \o t \in Seq(S) /\ Len(s \o t) = Len(s) + Len(t)
      /\ \A i \in 1 .. Len(s) + Len(t) :
           (s \o t)[i] = IF i <= Len(s) THEN s[i] ELSE t[i - Len(s)]
  BY ConcatProperties
<1>3. PICK f : IsPick(f, s \o t, R, S) /\ Those(s \o t, R) = f[Len(s \o t)]
  BY <1>2, ThoseStepByStep
<1>4. PICK g : IsPick(g, s, P, S) /\ Those(s, P) = g[Len(s)]
  BY ThoseStepByStep
<1>5. PICK h : IsPick(h, t, Q, S) /\ Those(t, Q) = h[Len(t)]
  BY ThoseStepByStep
<1> DEFINE u == s \o t
<1>6. /\ f[0] = <<>>
      /\ \A k \in 1 .. Len(s) + Len(t) : f[k] = IF k \in R THEN Append(f[k - 1], u[k]) ELSE f[k - 1]
  BY <1>2, <1>3 DEF IsPick
<1>7. /\ g[0] = <<>> /\ g[Len(s)] \in Seq(S)
      /\ \A k \in 1 .. Len(s) : g[k] = IF k \in P THEN Append(g[k - 1], s[k]) ELSE g[k - 1]
  BY <1>1, <1>4 DEF IsPick
<1>8. /\ h[0] = <<>> /\ h \in [0 .. Len(t) -> Seq(S)]
      /\ \A k \in 1 .. Len(t) : h[k] = IF k \in Q THEN Append(h[k - 1], t[k]) ELSE h[k - 1]
  BY <1>1, <1>5 DEF IsPick
<1>9. /\ \A k \in 1 .. Len(s) : u[k] = s[k]
      /\ \A k \in 1 .. Len(t) : u[Len(s) + k] = t[k]
  BY <1>1, <1>2
<1> HIDE DEF u
<1> DEFINE First == {k \in 0 .. Len(s) : f[k] = g[k]}
<1>10. ASSUME NEW k \in 1 .. Len(s), k - 1 \in First
       PROVE  k \in First
  <2>1. k \in 1 .. Len(s) + Len(t) /\ (k \in R <=> k \in P) /\ u[k] = s[k] /\ f[k - 1] = g[k - 1]
    BY <1>1, <1>9, <1>10
  <2>2. f[k] = g[k]
    BY <1>6, <1>7, <2>1, Zenon
  <2> QED
    BY <2>2
<1>11. 0 \in First
  BY <1>1, <1>6, <1>7
<1>12. f[Len(s)] = g[Len(s)]
  <2> HIDE DEF First
  <2>1. \A k \in 0 .. Len(s) : k \in First
    BY <1>1, <1>10, <1>11, UpToN
  <2>2. Len(s) \in First
    BY <1>1, <2>1
  <2> QED
    BY <2>2 DEF First
<1> DEFINE Second == {k \in 0 .. Len(t) : f[Len(s) + k] = g[Len(s)] \o h[k]}
<1>13. ASSUME NEW k \in 1 .. Len(t), k - 1 \in Second
       PROVE  k \in Second
  <2>1. /\ Len(s) + k \in 1 .. Len(s) + Len(t) /\ (Len(s) + k \in R <=> k \in Q)
        /\ (Len(s) + k) - 1 = Len(s) + (k - 1) /\ k - 1 \in 0 .. Len(t)
    BY <1>1
  <2>2. f[Len(s) + (k - 1)] = g[Len(s)] \o h[k - 1]
    BY <1>13
  <2>3. u[Len(s) + k] = t[k] /\ t[k] \in S
    BY <1>1, <1>9, ElementOfSeq
  <2>4. f[Len(s) + k] = IF k \in Q THEN Append(g[Len(s)] \o h[k - 1], t[k]) ELSE g[Len(s)] \o h[k - 1]
    <3>1. f[Len(s) + k] = IF Len(s) + k \in R THEN Append(f[(Len(s) + k) - 1], u[Len(s) + k])
                                              ELSE f[(Len(s) + k) - 1]
      BY <1>6, <2>1, Zenon
    <3> QED
      BY <2>1, <2>2, <2>3, <3>1, Zenon
  <2>5. h[k] = IF k \in Q THEN Append(h[k - 1], t[k]) ELSE h[k - 1]
    BY <1>8
  <2>6. h[k - 1] \in Seq(S)
    BY <1>8, <2>1
  <2>7. Append(g[Len(s)] \o h[k - 1], t[k]) = g[Len(s)] \o Append(h[k - 1], t[k])
    <3>1. g[Len(s)] \in Seq(S)
      BY <1>7
    <3>2. AppendsInside(g[Len(s)], h[k - 1], t[k])
      BY <2>3, <2>6, <3>1, AppendInside, Zenon
    <3> QED
      BY <3>2, Zenon DEF AppendsInside
  <2>8. f[Len(s) + k] = g[Len(s)] \o h[k]
    BY <2>4, <2>5, <2>7, Zenon
  <2>9. k \in 0 .. Len(t)
    BY <1>1
  <2> QED
    BY <2>8, <2>9, Zenon
<1>14. 0 \in Second
  <2>1. g[Len(s)] \o <<>> = g[Len(s)]
    BY <1>7, ConcatEmptySeq
  <2>2. Len(s) + 0 = Len(s)
    BY <1>1
  <2>3. f[Len(s) + 0] = g[Len(s)] \o h[0]
    BY <1>8, <1>12, <2>1, <2>2, Zenon
  <2>4. 0 \in 0 .. Len(t)
    BY <1>1
  <2> QED
    BY <2>3, <2>4, Zenon
<1>15. f[Len(s) + Len(t)] = g[Len(s)] \o h[Len(t)]
  <2> HIDE DEF Second
  <2>1. \A k \in 0 .. Len(t) : k \in Second
    BY <1>1, <1>13, <1>14, UpToN
  <2>2. Len(t) \in Second
    BY <1>1, <2>1
  <2> QED
    BY <2>2 DEF Second
<1> QED
  BY <1>2, <1>3, <1>4, <1>5, <1>15, Zenon

\* To pick and then to turn each into a message is to turn each into a message and then to
\* pick.
Image(h, q) == [k \in DOMAIN q |-> h[q[k]]]

Maps(h, S, T) == h \in [S -> T]

ImageOfThose(h, s, S, P) ==
  Those(s, P) \in Seq(S) /\ Those(Image(h, s), P) = Image(h, Those(s, P))

LEMMA ThoseOfImage ==
  ASSUME NEW S, NEW s \in Seq(S), NEW T, NEW h, Maps(h, S, T), NEW P
  PROVE  ImageOfThose(h, s, S, P)
<1> DEFINE image(q) == [k \in DOMAIN q |-> h[q[k]]]
<1>1. ASSUME NEW q \in Seq(S)
      PROVE  image(q) \in Seq(T) /\ Len(image(q)) = Len(q) /\ DOMAIN q = 1 .. Len(q) /\ Len(q) \in Nat
  <2>1. Len(q) \in Nat /\ DOMAIN q = 1 .. Len(q) /\ \A k \in 1 .. Len(q) : q[k] \in S
    BY LenProperties, ElementOfSeq
  <2>2. image(q) \in [1 .. Len(q) -> T]
    BY <2>1 DEF Maps
  <2> HIDE DEF image
  <2> QED
    BY <2>1, <2>2
<1>2. PICK f : IsPick(f, s, P, S) /\ Those(s, P) = f[Len(s)]
  BY ThoseStepByStep
<1>3. image(s) \in Seq(T) /\ Len(image(s)) = Len(s) /\ Len(s) \in Nat
  BY <1>1
<1>4. \A k \in 1 .. Len(s) : image(s)[k] = h[s[k]] /\ s[k] \in S
  BY <1>1, ElementOfSeq
<1>5. image(<<>>) = <<>>
  OBVIOUS
<1>6. ASSUME NEW q \in Seq(S), NEW x \in S
      PROVE  image(Append(q, x)) = Append(image(q), h[x])
  <2>1. /\ Append(q, x) \in Seq(S) /\ Len(Append(q, x)) = Len(q) + 1
        /\ \A i \in 1 .. Len(q) : Append(q, x)[i] = q[i]
        /\ Append(q, x)[Len(q) + 1] = x
    BY AppendProperties
  <2>2. /\ image(q) \in Seq(T) /\ Len(image(q)) = Len(q) /\ DOMAIN q = 1 .. Len(q) /\ Len(q) \in Nat
        /\ h[x] \in T
    BY <1>1 DEF Maps
  <2>3. /\ Append(image(q), h[x]) \in Seq(T) /\ Len(Append(image(q), h[x])) = Len(q) + 1
        /\ \A i \in 1 .. Len(q) : Append(image(q), h[x])[i] = image(q)[i]
        /\ Append(image(q), h[x])[Len(q) + 1] = h[x]
    <3> HIDE DEF image
    <3> QED
      BY <2>2, AppendProperties
  <2>4. image(Append(q, x)) \in Seq(T) /\ Len(image(Append(q, x))) = Len(q) + 1
        /\ DOMAIN Append(q, x) = 1 .. Len(q) + 1
    <3> HIDE DEF image
    <3> QED
      BY <1>1, <2>1
  <2>5. ASSUME NEW i \in 1 .. Len(q) + 1
        PROVE  image(Append(q, x))[i] = Append(image(q), h[x])[i]
    <3>1. image(Append(q, x))[i] = h[Append(q, x)[i]]
      BY <2>4
    <3>2. CASE i = Len(q) + 1
      <4> HIDE DEF image
      <4> QED
        BY <2>1, <2>3, <3>1, <3>2
    <3>3. CASE i # Len(q) + 1
      <4>1. i \in 1 .. Len(q)
        BY <2>2, <3>3
      <4>2. image(q)[i] = h[q[i]]
        BY <2>2, <4>1
      <4> HIDE DEF image
      <4> QED
        BY <2>1, <2>3, <3>1, <4>1, <4>2
    <3> QED
      BY <3>2, <3>3
  <2> HIDE DEF image
  <2> QED
    BY <2>3, <2>4, <2>5, SeqEqual
<1> HIDE DEF image
<1>7. PICK g : IsPick(g, image(s), P, T) /\ Those(image(s), P) = g[Len(image(s))]
  BY <1>3, ThoseStepByStep
<1> DEFINE Good == {k \in 0 .. Len(s) : g[k] = image(f[k])}
<1>8. ASSUME NEW k \in 1 .. Len(s), k - 1 \in Good
      PROVE  k \in Good
  <2>1. f[k] = IF k \in P THEN Append(f[k - 1], s[k]) ELSE f[k - 1]
    BY <1>2 DEF IsPick
  <2>2. g[k] = IF k \in P THEN Append(g[k - 1], h[s[k]]) ELSE g[k - 1]
    BY <1>3, <1>4, <1>7 DEF IsPick
  <2>3. f[k - 1] \in Seq(S) /\ s[k] \in S
    <3>1. k - 1 \in 0 .. Len(s)
      BY <1>3
    <3> QED
      BY <1>2, <1>4, <3>1 DEF IsPick
  <2>4. g[k - 1] = image(f[k - 1])
    BY <1>8
  <2>5. g[k] = image(f[k])
    BY <1>6, <2>1, <2>2, <2>3, <2>4, Zenon
  <2> QED
    BY <2>5
<1>9. 0 \in Good
  BY <1>2, <1>3, <1>5, <1>7 DEF IsPick
<1>10. Those(image(s), P) = image(Those(s, P))
  <2> HIDE DEF Good
  <2>1. \A k \in 0 .. Len(s) : k \in Good
    BY <1>3, <1>8, <1>9, UpToN
  <2>2. Len(s) \in Good
    BY <1>3, <2>1
  <2> QED
    BY <1>2, <1>3, <1>7, <2>2 DEF Good
<1>11. Those(s, P) \in Seq(S)
  BY <1>2, <1>3 DEF IsPick
<1> QED
  BY <1>10, <1>11, Zenon DEF image, Image, ImageOfThose

-----------------------------------------------------------------------------
(* The messages of a topic at a time *)

LEMMA StampedIsASequence ==
  ASSUME NEW S, NEW s \in Seq(S), NEW topic, NEW ts
  PROVE  Stamped(s, topic, ts) \in Seq(S)
<1> DEFINE P == {k \in DOMAIN s : s[k].topic = topic /\ s[k].ts = ts}
<1>1. Stamped(s, topic, ts) = Those(s, P)
  BY DEF Stamped
<1> HIDE DEF P
<1>2. PICK f : IsPick(f, s, P, S) /\ Those(s, P) = f[Len(s)]
  BY ThoseStepByStep
<1>3. Len(s) \in 0 .. Len(s)
  BY LenProperties
<1> QED
  BY <1>1, <1>2, <1>3 DEF IsPick

\* Of two sequences joined, the messages of the first and then those of the second.
StampedApart(s, t, topic, ts) ==
  Stamped(s \o t, topic, ts) = Stamped(s, topic, ts) \o Stamped(t, topic, ts)

LEMMA StampedOfConcat ==
  ASSUME NEW S, NEW s \in Seq(S), NEW t \in Seq(S), NEW topic, NEW ts
  PROVE  StampedApart(s, t, topic, ts)
<1> DEFINE u == s \o t
           P == {k \in DOMAIN s : s[k].topic = topic /\ s[k].ts = ts}
           Q == {k \in DOMAIN t : t[k].topic = topic /\ t[k].ts = ts}
           R == {k \in DOMAIN u : u[k].topic = topic /\ u[k].ts = ts}
<1>1. /\ Len(s) \in Nat /\ DOMAIN s = 1 .. Len(s)
      /\ Len(t) \in Nat /\ DOMAIN t = 1 .. Len(t)
  BY LenProperties
<1>2. /\ DOMAIN u = 1 .. Len(s) + Len(t)
      /\ \A i \in 1 .. Len(s) + Len(t) : u[i] = IF i <= Len(s) THEN s[i] ELSE t[i - Len(s)]
  <2>1. u \in Seq(S) /\ Len(u) = Len(s) + Len(t)
    BY ConcatProperties
  <2>2. \A i \in 1 .. Len(s) + Len(t) : u[i] = IF i <= Len(s) THEN s[i] ELSE t[i - Len(s)]
    BY ConcatProperties
  <2> HIDE DEF u
  <2> QED
    BY <2>1, <2>2, LenProperties
<1>3. \A k \in DOMAIN s : k \in R <=> k \in P
  <2> HIDE DEF u
  <2> QED
    BY <1>1, <1>2
<1>4. \A k \in DOMAIN t : Len(s) + k \in R <=> k \in Q
  <2> HIDE DEF u
  <2>1. ASSUME NEW k \in DOMAIN t
        PROVE  Len(s) + k \in DOMAIN u /\ u[Len(s) + k] = t[k]
    BY <1>1, <1>2
  <2> QED
    BY <2>1
<1>5. Stamped(u, topic, ts) = Those(u, R) /\ Stamped(s, topic, ts) = Those(s, P)
      /\ Stamped(t, topic, ts) = Those(t, Q)
  BY Zenon DEF Stamped
<1> HIDE DEF P, Q, R
<1>6. Those(s \o t, R) = Those(s, P) \o Those(t, Q)
  BY <1>3, <1>4, ThoseOfConcat
<1> QED
  BY <1>5, <1>6, Zenon DEF u, StampedApart

LEMMA NothingStamped ==
  ASSUME NEW S, NEW s \in Seq(S), NEW topic, NEW ts,
         \A k \in DOMAIN s : s[k].topic # topic \/ s[k].ts # ts
  PROVE  Stamped(s, topic, ts) = <<>>
<1> DEFINE P == {k \in DOMAIN s : s[k].topic = topic /\ s[k].ts = ts}
<1>1. \A k \in DOMAIN s : k \notin P
  OBVIOUS
<1>2. Stamped(s, topic, ts) = Those(s, P)
  BY DEF Stamped
<1> HIDE DEF P
<1> QED
  BY <1>1, <1>2, ThoseAtNoPlace

LEMMA AllStamped ==
  ASSUME NEW S, NEW s \in Seq(S), NEW topic, NEW ts,
         \A k \in DOMAIN s : s[k].topic = topic /\ s[k].ts = ts
  PROVE  Stamped(s, topic, ts) = s
<1> DEFINE P == {k \in DOMAIN s : s[k].topic = topic /\ s[k].ts = ts}
<1>1. DOMAIN s \subseteq P
  OBVIOUS
<1>2. Stamped(s, topic, ts) = Those(s, P)
  BY DEF Stamped
<1> HIDE DEF P
<1> QED
  BY <1>1, <1>2, ThoseAtAllPlaces

OfTopic(s, topic) == \A k \in DOMAIN s : s[k].topic = topic

JoinsFour(u, a, b, c, d) == u = a \o b \o c \o d

\* Four parts, each on a topic of its own.
OnFour(a, b, c, d, ta, tb, tc, td) ==
  /\ OfTopic(a, ta) /\ OfTopic(b, tb) /\ OfTopic(c, tc) /\ OfTopic(d, td)
  /\ ta # tb /\ ta # tc /\ ta # td /\ tb # tc /\ tb # td /\ tc # td

\* Of four parts on four topics, the part that is on the topic.
FourApart(u, a, b, c, d, ta, tb, tc, td, topic, ts) ==
  /\ topic = ta => Stamped(u, topic, ts) = Stamped(a, topic, ts)
  /\ topic = tb => Stamped(u, topic, ts) = Stamped(b, topic, ts)
  /\ topic = tc => Stamped(u, topic, ts) = Stamped(c, topic, ts)
  /\ topic = td => Stamped(u, topic, ts) = Stamped(d, topic, ts)

LEMMA StampedOfFour ==
  ASSUME NEW S, NEW a \in Seq(S), NEW b \in Seq(S), NEW c \in Seq(S), NEW d \in Seq(S), NEW u,
         NEW ta, NEW tb, NEW tc, NEW td, NEW topic, NEW ts, JoinsFour(u, a, b, c, d),
         OnFour(a, b, c, d, ta, tb, tc, td)
  PROVE  u \in Seq(S) /\ FourApart(u, a, b, c, d, ta, tb, tc, td, topic, ts)
<1> DEFINE ab == a \o b
           abc == ab \o c
<1>1. ab \in Seq(S) /\ abc \in Seq(S)
  OBVIOUS
<1>2. /\ StampedApart(a, b, topic, ts)
      /\ StampedApart(ab, c, topic, ts)
      /\ StampedApart(abc, d, topic, ts)
  <2> HIDE DEF ab, abc
  <2> QED
    BY <1>1, StampedOfConcat, Zenon
<1>3. /\ topic # ta => Stamped(a, topic, ts) = <<>>
      /\ topic # tb => Stamped(b, topic, ts) = <<>>
      /\ topic # tc => Stamped(c, topic, ts) = <<>>
      /\ topic # td => Stamped(d, topic, ts) = <<>>
  BY NothingStamped DEF OnFour, OfTopic
<1>4. /\ Stamped(a, topic, ts) \in Seq(S) /\ Stamped(b, topic, ts) \in Seq(S)
      /\ Stamped(c, topic, ts) \in Seq(S) /\ Stamped(d, topic, ts) \in Seq(S)
  BY StampedIsASequence
<1>5. \A q \in Seq(S) : Unjoined(q)
  BY NothingJoined
<1>6. <<>> \in Seq(S) /\ abc \o d \in Seq(S)
  OBVIOUS
<1> DEFINE w == Stamped(abc \o d, topic, ts)
           pa == Stamped(a, topic, ts)
           pb == Stamped(b, topic, ts)
           pc == Stamped(c, topic, ts)
           pd == Stamped(d, topic, ts)
<1>7. w = ((pa \o pb) \o pc) \o pd
  BY <1>2, Zenon DEF StampedApart
<1>8. /\ topic # ta => pa = <<>>
      /\ topic # tb => pb = <<>>
      /\ topic # tc => pc = <<>>
      /\ topic # td => pd = <<>>
  BY <1>3
<1>9. Unjoined(pa) /\ Unjoined(pb) /\ Unjoined(pc) /\ Unjoined(pd) /\ Unjoined(<<>>)
  BY <1>4, <1>5, <1>6
<1> HIDE DEF w, pa, pb, pc, pd
<1>10. /\ topic = ta => w = pa
       /\ topic = tb => w = pb
       /\ topic = tc => w = pc
       /\ topic = td => w = pd
  <2>1. CASE topic = ta
    <3>1. pb = <<>> /\ pc = <<>> /\ pd = <<>>
      BY <1>8, <2>1 DEF OnFour
    <3>2. w = ((pa \o <<>>) \o <<>>) \o <<>>
      BY <1>7, <3>1, Zenon
    <3>3. topic # tb /\ topic # tc /\ topic # td
      BY <2>1 DEF OnFour
    <3> QED
      BY <1>9, <2>1, <3>2, <3>3, Zenon DEF Unjoined
  <2>2. CASE topic = tb
    <3>1. pa = <<>> /\ pc = <<>> /\ pd = <<>>
      BY <1>8, <2>2 DEF OnFour
    <3>2. w = ((<<>> \o pb) \o <<>>) \o <<>>
      BY <1>7, <3>1, Zenon
    <3>3. topic # ta /\ topic # tc /\ topic # td
      BY <2>2 DEF OnFour
    <3> QED
      BY <1>9, <2>2, <3>2, <3>3, Zenon DEF Unjoined
  <2>3. CASE topic = tc
    <3>1. pa = <<>> /\ pb = <<>> /\ pd = <<>>
      BY <1>8, <2>3 DEF OnFour
    <3>2. w = ((<<>> \o <<>>) \o pc) \o <<>>
      BY <1>7, <3>1, Zenon
    <3>3. topic # ta /\ topic # tb /\ topic # td
      BY <2>3 DEF OnFour
    <3> QED
      BY <1>9, <2>3, <3>2, <3>3, Zenon DEF Unjoined
  <2>4. CASE topic = td
    <3>1. pa = <<>> /\ pb = <<>> /\ pc = <<>>
      BY <1>8, <2>4 DEF OnFour
    <3>2. w = ((<<>> \o <<>>) \o <<>>) \o pd
      BY <1>7, <3>1, Zenon
    <3>3. topic # ta /\ topic # tb /\ topic # tc
      BY <2>4 DEF OnFour
    <3> QED
      BY <1>9, <2>4, <3>2, <3>3, Zenon DEF Unjoined
  <2> QED
    BY <2>1, <2>2, <2>3, <2>4, Zenon
<1>11. u = abc \o d
  BY Zenon DEF JoinsFour
<1>12. u \in Seq(S)
  BY <1>6, <1>11, Zenon
<1> QED
  BY <1>10, <1>11, <1>12, Zenon DEF FourApart, w, pa, pb, pc, pd

-----------------------------------------------------------------------------
(* The rows of a frame at a time *)

AtGrows(q, x, ts) ==
  At(Append(q, x), ts) = IF x.ts = ts THEN Append(At(q, ts), x) ELSE At(q, ts)

LEMMA AtOneMore ==
  ASSUME NEW S, NEW q \in Seq(S), NEW x \in S, NEW ts
  PROVE  AtGrows(q, x, ts)
<1> DEFINE P == {k \in DOMAIN q : q[k].ts = ts}
           y == Append(q, x)
           R == {k \in DOMAIN y : y[k].ts = ts}
<1>1. /\ Len(q) \in Nat /\ DOMAIN q = 1 .. Len(q)
      /\ y \in Seq(S) /\ Len(y) = Len(q) + 1 /\ DOMAIN y = 1 .. Len(q) + 1
      /\ y[Len(q) + 1] = x /\ \A i \in 1 .. Len(q) : y[i] = q[i]
  <2>1. /\ y \in Seq(S) /\ Len(y) = Len(q) + 1
        /\ y[Len(q) + 1] = x /\ \A i \in 1 .. Len(q) : y[i] = q[i]
    BY AppendProperties
  <2> HIDE DEF y
  <2> QED
    BY <2>1, LenProperties
<1>2. At(q, ts) = Those(q, P) /\ At(y, ts) = Those(y, R)
  BY Zenon DEF At
<1> HIDE DEF y
<1>3. /\ \A k \in 1 .. Len(q) : k \in R <=> k \in P
      /\ Len(q) + 1 \in R <=> x.ts = ts
  BY <1>1
<1> HIDE DEF P, R
<1>4. PICK f : IsPick(f, q, P, S) /\ Those(q, P) = f[Len(q)]
  BY ThoseStepByStep
<1>5. PICK g : IsPick(g, y, R, S) /\ Those(y, R) = g[Len(y)]
  BY <1>1, ThoseStepByStep
<1>6. /\ f \in [0 .. Len(q) -> Seq(S)] /\ f[0] = <<>>
      /\ \A k \in 1 .. Len(q) : f[k] = IF k \in P THEN Append(f[k - 1], q[k]) ELSE f[k - 1]
  BY <1>4 DEF IsPick
<1>7. /\ g[0] = <<>>
      /\ \A k \in 1 .. Len(q) + 1 : g[k] = IF k \in R THEN Append(g[k - 1], y[k]) ELSE g[k - 1]
  BY <1>1, <1>5 DEF IsPick
<1> DEFINE Good == {k \in 0 .. Len(q) : g[k] = f[k]}
<1>8. ASSUME NEW k \in 1 .. Len(q), k - 1 \in Good
      PROVE  k \in Good
  <2>1. k \in 1 .. Len(q) + 1 /\ y[k] = q[k] /\ (k \in R <=> k \in P) /\ g[k - 1] = f[k - 1]
    BY <1>1, <1>3, <1>8
  <2>2. g[k] = f[k]
    BY <1>6, <1>7, <2>1, Zenon
  <2> QED
    BY <2>2
<1>9. 0 \in Good
  BY <1>1, <1>6, <1>7
<1>10. g[Len(q)] = f[Len(q)]
  <2> HIDE DEF Good
  <2>1. \A k \in 0 .. Len(q) : k \in Good
    BY <1>1, <1>8, <1>9, UpToN
  <2>2. Len(q) \in Good
    BY <1>1, <2>1
  <2> QED
    BY <2>2 DEF Good
<1>11. g[Len(q) + 1] = IF x.ts = ts THEN Append(g[Len(q)], x) ELSE g[Len(q)]
  <2>1. Len(q) + 1 \in 1 .. Len(q) + 1 /\ (Len(q) + 1) - 1 = Len(q)
    BY <1>1
  <2>2. g[Len(q) + 1] = IF Len(q) + 1 \in R THEN Append(g[(Len(q) + 1) - 1], y[Len(q) + 1])
                                           ELSE g[(Len(q) + 1) - 1]
    BY <1>7, <2>1, Zenon
  <2> QED
    BY <1>1, <1>3, <2>1, <2>2, Zenon
<1> QED
  BY <1>1, <1>2, <1>4, <1>5, <1>10, <1>11, Zenon DEF y, AtGrows

\* A row without a time is at none.
LEMMA AtOfTimed ==
  ASSUME NEW S, NEW s \in Seq(S), NEW ts, ts # NoTime
  PROVE  Timed(s) \in Seq(S) /\ At(Timed(s), ts) = At(s, ts)
<1> DEFINE P == {k \in DOMAIN s : s[k].ts # NoTime}
           Q == {k \in DOMAIN s : s[k].ts = ts}
<1>1. Len(s) \in Nat /\ DOMAIN s = 1 .. Len(s) /\ \A k \in 1 .. Len(s) : s[k] \in S
  BY LenProperties, ElementOfSeq
<1>2. Timed(s) = Those(s, P) /\ At(s, ts) = Those(s, Q)
  BY Zenon DEF Timed, At
<1>3. \A k \in 1 .. Len(s) : (k \in P <=> s[k].ts # NoTime) /\ (k \in Q <=> s[k].ts = ts)
  BY <1>1
<1> HIDE DEF P, Q
<1>4. PICK f : IsPick(f, s, P, S) /\ Those(s, P) = f[Len(s)]
  BY ThoseStepByStep
<1>5. PICK g : IsPick(g, s, Q, S) /\ Those(s, Q) = g[Len(s)]
  BY ThoseStepByStep
<1> DEFINE Good == {k \in 0 .. Len(s) : At(f[k], ts) = g[k]}
<1>6. ASSUME NEW k \in 1 .. Len(s), k - 1 \in Good
      PROVE  k \in Good
  <2>1. f[k] = IF k \in P THEN Append(f[k - 1], s[k]) ELSE f[k - 1]
    BY <1>4 DEF IsPick
  <2>2. g[k] = IF k \in Q THEN Append(g[k - 1], s[k]) ELSE g[k - 1]
    BY <1>5 DEF IsPick
  <2>3. f[k - 1] \in Seq(S) /\ s[k] \in S
    <3>1. k - 1 \in 0 .. Len(s)
      BY <1>1
    <3> QED
      BY <1>1, <1>4, <3>1 DEF IsPick
  <2>4. At(Append(f[k - 1], s[k]), ts) =
          IF s[k].ts = ts THEN Append(At(f[k - 1], ts), s[k]) ELSE At(f[k - 1], ts)
    BY <2>3, AtOneMore, Zenon DEF AtGrows
  <2>5. At(f[k - 1], ts) = g[k - 1] /\ (k \in P <=> s[k].ts # NoTime) /\ (k \in Q <=> s[k].ts = ts)
    BY <1>3, <1>6
  <2>6. At(f[k], ts) = g[k]
    BY <2>1, <2>2, <2>4, <2>5, Zenon
  <2> QED
    BY <2>6
<1>7. 0 \in Good
  <2>1. f[0] = <<>> /\ g[0] = <<>>
    BY <1>1, <1>4, <1>5 DEF IsPick
  <2>2. <<>> \in Seq(S) /\ DOMAIN <<>> = {}
    OBVIOUS
  <2>3. At(<<>>, ts) = <<>>
    BY <2>2, ThoseAtNoPlace DEF At
  <2>4. 0 \in 0 .. Len(s)
    BY <1>1
  <2> QED
    BY <2>1, <2>3, <2>4, Zenon
<1>8. At(f[Len(s)], ts) = g[Len(s)]
  <2> HIDE DEF Good
  <2>1. \A k \in 0 .. Len(s) : k \in Good
    BY <1>1, <1>6, <1>7, UpToN
  <2>2. Len(s) \in Good
    BY <1>1, <2>1
  <2> QED
    BY <2>2 DEF Good
<1>9. f[Len(s)] \in Seq(S)
  BY <1>1, <1>4 DEF IsPick
<1> QED
  BY <1>2, <1>4, <1>5, <1>8, <1>9, Zenon

-----------------------------------------------------------------------------
(* The buckets of a frame *)

\* g is what FoldLeft computes of a frame on every set of its first n places.
IsGroupsOf(g, frame, n) ==
  g = [S \in SUBSET (1 .. n) |->
         IF S = {} THEN <<>> ELSE WithRow(g[S \ {Max(S)}], frame[Max(S)])]

LEMMA GroupsOfExists ==
  ASSUME NEW n \in Nat, NEW frame
  PROVE  \E g : IsGroupsOf(g, frame, n)
<1> DEFINE Good == {m \in 0 .. n : \E g : IsGroupsOf(g, frame, m)}
<1>1. 0 \in Good
  <2> DEFINE g == [S \in SUBSET (1 .. 0) |-> <<>>]
  <2>1. \A S \in SUBSET (1 .. 0) : S = {}
    OBVIOUS
  <2>2. IsGroupsOf(g, frame, 0)
    BY <2>1 DEF IsGroupsOf
  <2> QED
    BY <2>2
<1>2. ASSUME NEW m \in 1 .. n, m - 1 \in Good
      PROVE  m \in Good
  <2>1. PICK h : IsGroupsOf(h, frame, m - 1)
    BY <1>2
  <2> DEFINE g == [S \in SUBSET (1 .. m) |->
                     IF m \in S THEN WithRow(h[S \ {m}], frame[m]) ELSE h[S]]
  <2>2. ASSUME NEW S \in SUBSET (1 .. m)
        PROVE  g[S] = IF S = {} THEN <<>> ELSE WithRow(g[S \ {Max(S)}], frame[Max(S)])
    <3>1. CASE m \in S
      <4>1. Max(S) = m
        BY <3>1, MaxIsTop
      <4>2. S \ {m} \in SUBSET (1 .. m) /\ m \notin S \ {m}
        OBVIOUS
      <4>3. g[S \ {m}] = h[S \ {m}] /\ g[S] = WithRow(h[S \ {m}], frame[m])
        BY <3>1, <4>2
      <4> HIDE DEF g
      <4> QED
        BY <3>1, <4>1, <4>3
    <3>2. CASE m \notin S
      <4>1. S \in SUBSET (1 .. m - 1)
        BY <3>2
      <4>2. h[S] = IF S = {} THEN <<>> ELSE WithRow(h[S \ {Max(S)}], frame[Max(S)])
        BY <2>1, <4>1 DEF IsGroupsOf
      <4>3. g[S] = h[S]
        BY <3>2
      <4>4. g[S \ {Max(S)}] = h[S \ {Max(S)}]
        BY <3>2
      <4> HIDE DEF g
      <4> QED
        BY <4>2, <4>3, <4>4
    <3> QED
      BY <3>1, <3>2
  <2>3. DOMAIN g = SUBSET (1 .. m) /\ g = [S \in DOMAIN g |-> g[S]]
    OBVIOUS
  <2> HIDE DEF g
  <2>4. IsGroupsOf(g, frame, m)
    BY <2>2, <2>3 DEF IsGroupsOf
  <2> QED
    BY <2>4
<1>3. n \in Good
  <2> HIDE DEF Good
  <2>1. \A k \in 0 .. n : k \in Good
    BY <1>1, <1>2, UpToN
  <2> QED
    BY <2>1
<1> QED
  BY <1>3

\* The buckets of a frame come out row by row.
LEMMA GroupsStepByStep ==
  ASSUME NEW n \in Nat, NEW frame, DOMAIN frame = 1 .. n
  PROVE  \E b : /\ b[0] = <<>>
                /\ \A k \in 1 .. n : b[k] = WithRow(b[k - 1], frame[k])
                /\ Groups(frame) = b[n]
<1> DEFINE raw(g) == g = [S \in SUBSET DOMAIN frame |->
                            IF S = {} THEN <<>> ELSE WithRow(g[S \ {Max(S)}], frame[Max(S)])]
<1>1. Groups(frame) = (CHOOSE g : raw(g))[DOMAIN frame]
  BY Zenon DEF Groups, FoldLeft, MapThenFoldSet
<1>2. \A g : raw(g) <=> IsGroupsOf(g, frame, n)
  BY DEF IsGroupsOf
<1> HIDE DEF raw
<1>3. \E g : raw(g)
  BY <1>2, GroupsOfExists
<1>4. PICK g : g = (CHOOSE h : raw(h)) /\ raw(g)
  BY <1>3, Zenon
<1>5. IsGroupsOf(g, frame, n) /\ Groups(frame) = g[1 .. n]
  BY <1>1, <1>2, <1>4
<1>6. g[1 .. 0] = <<>>
  <2>1. 1 .. 0 = {}
    OBVIOUS
  <2> QED
    BY <1>5, <2>1 DEF IsGroupsOf
<1>7. ASSUME NEW k \in 1 .. n
      PROVE  g[1 .. k] = WithRow(g[1 .. k - 1], frame[k])
  <2>1. 1 .. k \in SUBSET (1 .. n) /\ 1 .. k # {} /\ k \in Nat /\ k \in 1 .. k
    OBVIOUS
  <2>2. Max(1 .. k) = k
    BY <2>1, MaxIsTop
  <2>3. (1 .. k) \ {k} = 1 .. k - 1
    OBVIOUS
  <2> QED
    BY <1>5, <2>1, <2>2, <2>3 DEF IsGroupsOf
<1> DEFINE b == [k \in 0 .. n |-> g[1 .. k]]
<1>8. b[0] = <<>> /\ Groups(frame) = b[n] /\ \A k \in 1 .. n : b[k] = WithRow(b[k - 1], frame[k])
  BY <1>5, <1>6, <1>7
<1> QED
  BY <1>8

InTimeOrder(frame) ==
  /\ \A k \in DOMAIN frame : frame[k].ts \in Int
  /\ \A i, j \in DOMAIN frame : i < j => frame[i].ts <= frame[j].ts

\* What the buckets g of the first k rows are, when a are the rows at ts among these.
GroupsSoFar(g, R, frame, k, ts, a) ==
  /\ g \in Seq(Seq(R))
  /\ \A j \in 1 .. Len(g) : Len(g[j]) > 0 /\ g[j][1].ts \in Times(frame)
  /\ k = 0 => Len(g) = 0
  /\ k > 0 => Len(g) > 0 /\ g[Len(g)][1].ts = frame[k].ts
  /\ \A i, j \in 1 .. Len(g) : i < j => g[i][1].ts < g[j][1].ts
  /\ \A j \in 1 .. Len(g) : g[j][1].ts = ts => g[j] = a
  /\ a # <<>> => \E j \in 1 .. Len(g) : g[j][1].ts = ts

LEMMA OneMoreRow ==
  ASSUME NEW R, NEW frame \in Seq(R), InTimeOrder(frame), NEW k \in 1 .. Len(frame),
         NEW g, NEW ts, NEW a \in Seq(R), GroupsSoFar(g, R, frame, k - 1, ts, a)
  PROVE  GroupsSoFar(WithRow(g, frame[k]), R, frame, k, ts,
                     IF frame[k].ts = ts THEN Append(a, frame[k]) ELSE a)
<1> DEFINE x == frame[k]
           n == Len(g)
           h == WithRow(g, x)
           b == IF x.ts = ts THEN Append(a, x) ELSE a
<1>1. /\ x \in R /\ k \in DOMAIN frame /\ x.ts \in Times(frame) /\ x.ts \in Int
      /\ Times(frame) \subseteq Int /\ Len(frame) \in Nat
  <2>1. x \in R /\ k \in DOMAIN frame /\ Len(frame) \in Nat
    BY LenProperties, ElementOfSeq
  <2> QED
    BY <2>1 DEF Times, InTimeOrder
<1>2. /\ g \in Seq(Seq(R)) /\ n \in Nat
      /\ \A j \in 1 .. n : g[j] \in Seq(R) /\ Len(g[j]) \in Nat /\ Len(g[j]) > 0
                            /\ g[j][1].ts \in Times(frame)
  <2>1. g \in Seq(Seq(R)) /\ \A j \in 1 .. n : Len(g[j]) > 0 /\ g[j][1].ts \in Times(frame)
    BY DEF GroupsSoFar
  <2>2. n \in Nat /\ \A j \in 1 .. n : g[j] \in Seq(R)
    BY <2>1, LenProperties, ElementOfSeq
  <2> QED
    BY <2>1, <2>2, LenProperties
<1>3. /\ k - 1 = 0 => n = 0
      /\ k - 1 > 0 => n > 0 /\ g[n][1].ts = frame[k - 1].ts
      /\ \A i, j \in 1 .. n : i < j => g[i][1].ts < g[j][1].ts
      /\ \A j \in 1 .. n : g[j][1].ts = ts => g[j] = a
      /\ a # <<>> => \E j \in 1 .. n : g[j][1].ts = ts
  BY DEF GroupsSoFar
<1>4. \A q \in Seq(R) : Append(q, x) \in Seq(R) /\ Len(Append(q, x)) = Len(q) + 1
  BY <1>1, AppendProperties
<1> HIDE DEF x, n
<1>5. CASE n > 0 /\ g[n][1].ts = x.ts
  <2>1. h = [g EXCEPT ![n] = Append(g[n], x)]
    BY <1>5, Zenon DEF WithRow, n
  <2>2. n \in 1 .. n
    BY <1>2, <1>5
  <2>3. Append(g[n], x) \in Seq(R) /\ Append(g[n], x)[1] = g[n][1] /\ Len(Append(g[n], x)) > 0
    <3>1. g[n] \in Seq(R) /\ Len(g[n]) \in Nat /\ Len(g[n]) > 0
      BY <1>2, <2>2
    <3>2. 1 \in 1 .. Len(g[n])
      BY <3>1
    <3>3. \A i \in 1 .. Len(g[n]) : Append(g[n], x)[i] = g[n][i]
      BY <1>1, <3>1, AppendProperties
    <3> QED
      BY <1>4, <3>1, <3>2, <3>3
  <2>4. h \in Seq(Seq(R)) /\ Len(h) = n
        /\ \A j \in 1 .. n : h[j] = IF j = n THEN Append(g[n], x) ELSE g[j]
    BY <1>2, <2>1, <2>2, <2>3, ExceptSeq DEF n
  <2> HIDE DEF h
  <2>5. \A j \in 1 .. n : h[j][1] = g[j][1]
    BY <2>3, <2>4
  <2>6. ASSUME NEW i \in 1 .. n, NEW j \in 1 .. n, g[i][1].ts = g[j][1].ts
        PROVE  i = j
    <3>1. ~ (i < j) /\ ~ (j < i)
      <4>1. g[i][1].ts \in Int
        BY <1>1, <1>2
      <4>2. ~ (g[i][1].ts < g[j][1].ts) /\ ~ (g[j][1].ts < g[i][1].ts)
        BY <2>6, <4>1
      <4> QED
        BY <1>3, <4>2, Zenon
    <3> QED
      BY <1>2, <3>1
  <2>7. ASSUME NEW j \in 1 .. n, h[j][1].ts = ts
        PROVE  h[j] = b
    <3>1. g[j][1].ts = ts /\ g[j] = a
      BY <1>3, <2>5, <2>7
    <3>2. CASE j = n
      <4>1. x.ts = ts
        BY <1>5, <3>1, <3>2
      <4> QED
        BY <2>4, <3>1, <3>2, <4>1
    <3>3. CASE j # n
      <4>1. x.ts # ts
        BY <1>5, <2>2, <2>6, <3>1, <3>3
      <4> QED
        BY <2>4, <3>1, <3>3, <4>1
    <3> QED
      BY <3>2, <3>3
  <2>8. b # <<>> => \E j \in 1 .. n : h[j][1].ts = ts
    BY <1>3, <1>5, <2>2, <2>5
  <2>9. h[n][1].ts = x.ts
    BY <1>5, <2>2, <2>5
  <2>10. \A j \in 1 .. n : Len(h[j]) > 0
    BY <1>2, <2>3, <2>4
  <2> HIDE DEF b
  <2>11. /\ \A j \in 1 .. n : h[j][1].ts \in Times(frame)
         /\ \A i, j \in 1 .. n : i < j => h[i][1].ts < h[j][1].ts
    BY <1>2, <1>3, <2>5
  <2>12. k # 0 /\ k > 0
    OBVIOUS
  <2>13. GroupsSoFar(h, R, frame, k, ts, b)
    <3>1. h[Len(h)][1].ts = frame[k].ts /\ Len(h) > 0
      BY <1>5, <2>4, <2>9 DEF x
    <3> QED
      BY <2>4, <2>7, <2>8, <2>10, <2>11, <2>12, <3>1, Zenon DEF GroupsSoFar
  <2> QED
    BY <2>13, Zenon DEF h, b, x
<1>6. CASE ~ (n > 0 /\ g[n][1].ts = x.ts)
  <2>1. h = Append(g, <<x>>)
    BY <1>6, Zenon DEF WithRow, n
  <2>2. <<x>> \in Seq(R) /\ Len(<<x>>) = 1 /\ <<x>>[1] = x
    BY <1>1
  <2>3. h \in Seq(Seq(R)) /\ Len(h) = n + 1 /\ h[n + 1] = <<x>> /\ \A j \in 1 .. n : h[j] = g[j]
    BY <1>2, <2>1, <2>2, AppendProperties DEF n
  <2> HIDE DEF h
  <2>4. \A j \in 1 .. n : g[j][1].ts < x.ts
    <3>1. CASE n = 0
      BY <3>1
    <3>2. CASE n # 0
      <4>1. n > 0 /\ k - 1 > 0 /\ g[n][1].ts = frame[k - 1].ts
        BY <1>2, <1>3, <3>2
      <4>2. frame[k - 1].ts <= x.ts
        <5>1. k - 1 \in DOMAIN frame /\ k - 1 < k
          BY <1>1, <4>1, LenProperties
        <5> QED
          BY <1>1, <5>1 DEF InTimeOrder, x
      <4>3. n \in 1 .. n /\ g[n][1].ts \in Int
        BY <1>1, <1>2, <4>1
      <4>4. g[n][1].ts < x.ts
        BY <1>1, <1>6, <4>1, <4>2, <4>3
      <4>5. ASSUME NEW j \in 1 .. n
            PROVE  g[j][1].ts < x.ts
        <5>1. g[j][1].ts \in Int
          BY <1>1, <1>2
        <5>2. CASE j = n
          BY <4>4, <5>2
        <5>3. CASE j # n
          <6>1. g[j][1].ts < g[n][1].ts
            BY <1>2, <1>3, <4>3, <5>3
          <6> QED
            BY <1>1, <4>3, <4>4, <5>1, <6>1
        <5> QED
          BY <5>2, <5>3
      <4> QED
        BY <4>5
    <3> QED
      BY <3>1, <3>2
  <2>5. x.ts = ts => b = <<x>>
    <3>1. SUFFICES ASSUME x.ts = ts PROVE b = <<x>>
      OBVIOUS
    <3>2. \A j \in 1 .. n : g[j][1].ts # ts
      <4>1. \A j \in 1 .. n : g[j][1].ts < ts
        BY <2>4, <3>1
      <4>2. ts \in Int /\ \A j \in 1 .. n : g[j][1].ts \in Int
        BY <1>1, <1>2, <3>1
      <4> QED
        BY <4>1, <4>2
    <3>3. a = <<>>
      BY <1>3, <3>2
    <3> QED
      BY <3>1, <3>3
  <2>6. x.ts # ts => b = a
    OBVIOUS
  <2>7. 1 .. n + 1 = (1 .. n) \cup {n + 1} /\ n + 1 \notin 1 .. n
    BY <1>2
  <2>8. \A j \in 1 .. n + 1 : Len(h[j]) > 0 /\ h[j][1].ts \in Times(frame)
    <3>1. Len(h[n + 1]) > 0 /\ h[n + 1][1].ts \in Times(frame)
      BY <1>1, <2>2, <2>3
    <3>2. \A j \in 1 .. n : Len(h[j]) > 0 /\ h[j][1].ts \in Times(frame)
      BY <1>2, <2>3
    <3> QED
      BY <2>7, <3>1, <3>2
  <2>9. \A i, j \in 1 .. n + 1 : i < j => h[i][1].ts < h[j][1].ts
    <3>1. \A i, j \in 1 .. n : i < j => h[i][1].ts < h[j][1].ts
      BY <1>3, <2>3
    <3>2. \A i \in 1 .. n : h[i][1].ts < h[n + 1][1].ts
      BY <2>2, <2>3, <2>4
    <3>3. \A j \in 1 .. n : ~ (n + 1 < j)
      BY <1>2
    <3>4. ~ (n + 1 < n + 1)
      BY <1>2
    <3> QED
      BY <2>7, <3>1, <3>2, <3>3, <3>4
  <2>10. \A j \in 1 .. n + 1 : h[j][1].ts = ts => h[j] = b
    <3>1. ASSUME NEW j \in 1 .. n, h[j][1].ts = ts
          PROVE  h[j] = b
      <4>1. g[j][1].ts = ts /\ h[j] = g[j] /\ g[j] = a
        BY <1>3, <2>3, <3>1
      <4>2. x.ts # ts
        BY <1>1, <1>2, <2>4, <4>1
      <4> QED
        BY <2>6, <4>1, <4>2
    <3>2. h[n + 1][1].ts = ts => h[n + 1] = b
      BY <2>2, <2>3, <2>5
    <3> QED
      BY <2>7, <3>1, <3>2
  <2>11. b # <<>> => \E j \in 1 .. n + 1 : h[j][1].ts = ts
    BY <1>3, <2>2, <2>3, <2>6, <2>7
  <2> HIDE DEF b
  <2>12. GroupsSoFar(h, R, frame, k, ts, b)
    BY <1>2, <2>2, <2>3, <2>8, <2>9, <2>10, <2>11 DEF GroupsSoFar, x
  <2> QED
    BY <2>12, Zenon DEF h, b, x
<1> QED
  BY <1>5, <1>6

\* A frame's buckets hold, each for a time of its own, the rows at this time.
LEMMA GroupsAreByTime ==
  ASSUME NEW R, NEW frame \in Seq(R), InTimeOrder(frame), NEW ts
  PROVE  GroupsSoFar(Groups(frame), R, frame, Len(frame), ts, At(frame, ts))
<1> DEFINE Q == {k \in DOMAIN frame : frame[k].ts = ts}
           n == Len(frame)
<1>1. n \in Nat /\ DOMAIN frame = 1 .. n /\ \A k \in 1 .. n : frame[k] \in R
  BY LenProperties, ElementOfSeq
<1>2. At(frame, ts) = Those(frame, Q) /\ \A k \in 1 .. n : k \in Q <=> frame[k].ts = ts
  BY <1>1 DEF At
<1> HIDE DEF Q
<1>3. PICK f : IsPick(f, frame, Q, R) /\ Those(frame, Q) = f[n]
  BY ThoseStepByStep
<1>4. PICK b : /\ b[0] = <<>>
               /\ \A k \in 1 .. n : b[k] = WithRow(b[k - 1], frame[k])
               /\ Groups(frame) = b[n]
  <2> HIDE DEF n
  <2> QED
    BY <1>1, GroupsStepByStep
<1> DEFINE Good == {k \in 0 .. n : GroupsSoFar(b[k], R, frame, k, ts, f[k])}
<1>5. ASSUME NEW k \in 1 .. n, k - 1 \in Good
      PROVE  k \in Good
  <2>1. f[k] = IF frame[k].ts = ts THEN Append(f[k - 1], frame[k]) ELSE f[k - 1]
    BY <1>2, <1>3 DEF IsPick
  <2>2. f[k - 1] \in Seq(R)
    <3>1. k - 1 \in 0 .. n
      BY <1>1
    <3> QED
      BY <1>3, <3>1 DEF IsPick
  <2>3. b[k] = WithRow(b[k - 1], frame[k])
    BY <1>4
  <2>4. GroupsSoFar(b[k - 1], R, frame, k - 1, ts, f[k - 1])
    BY <1>5
  <2>5. GroupsSoFar(b[k], R, frame, k, ts, f[k])
    BY <2>1, <2>2, <2>3, <2>4, OneMoreRow
  <2> QED
    BY <2>5
<1>6. 0 \in Good
  <2>1. b[0] = <<>> /\ f[0] = <<>>
    BY <1>3, <1>4 DEF IsPick
  <2>2. GroupsSoFar(<<>>, R, frame, 0, ts, <<>>)
    BY DEF GroupsSoFar
  <2> QED
    BY <1>1, <2>1, <2>2
<1> HIDE DEF Good
<1>7. n \in Good
  <2>1. \A k \in 0 .. n : k \in Good
    BY <1>1, <1>5, <1>6, UpToN
  <2> QED
    BY <1>1, <2>1
<1> QED
  BY <1>2, <1>3, <1>4, <1>7 DEF Good

-----------------------------------------------------------------------------
(* What is sent and what is logged at a time *)

BarRow == [ts : Int, symbol : STRING]
PositionRow == [ts : Int, symbol : STRING, market_value : Int]
FillRow == [ts : Int, symbol : STRING, side : STRING, shares : Int]

Bodies(r) ==
  STRING \cup (STRING \X STRING \X Int)
    \cup {EquityMessage(r.rows, i).body : i \in DOMAIN r.rows}
    \cup UNION {{PortfolioMessage(0, e, p).body : p \in Seq(PositionRow)} : e \in Int}

Messages(r) == [topic : Topics, ts : Int, body : Bodies(r)]

OfTime(s, ts) == \A k \in DOMAIN s : s[k].ts = ts

LEMMA FrameTypes ==
  ASSUME NEW r, IsResult(r)
  PROVE  /\ r.rows \in Seq([ts : Int, equity : Int]) /\ r.bars \in Seq(BarRow)
         /\ r.positions \in Seq(PositionRow) /\ r.fills \in Seq(FillRow)
         /\ InTimeOrder(r.positions) /\ InTimeOrder(r.rows)
         /\ DOMAIN r.rows = 1 .. Len(r.rows) /\ Len(r.rows) \in Nat
         /\ \A i \in DOMAIN r.rows : r.rows[i].ts \in Int \ {NoTime} /\ r.rows[i].equity \in Int
         /\ \A i, j \in DOMAIN r.rows : r.rows[i].ts = r.rows[j].ts => i = j
<1>1. /\ r.rows \in Seq([ts : Int, equity : Int]) /\ r.bars \in Seq(BarRow)
      /\ r.positions \in Seq(PositionRow) /\ r.fills \in Seq(FillRow)
  BY Zenon DEF IsResult, BarRow, PositionRow, FillRow
<1>2. DOMAIN r.rows = 1 .. Len(r.rows) /\ Len(r.rows) \in Nat
  BY <1>1, LenProperties
<1>3. \A i \in DOMAIN r.rows : r.rows[i].ts \in Int /\ r.rows[i].equity \in Int
  <2>1. \A i \in DOMAIN r.rows : r.rows[i] \in [ts : Int, equity : Int]
    BY <1>1, <1>2, ElementOfSeq
  <2> QED
    BY <2>1
<1>4. \A i \in DOMAIN r.rows : r.rows[i].ts # NoTime
  BY Zenon DEF IsResult, Times
<1>5. \A i, j \in DOMAIN r.rows : i < j => r.rows[i].ts < r.rows[j].ts
  BY Zenon DEF IsResult
<1>6. InTimeOrder(r.rows)
  BY <1>3, <1>5 DEF InTimeOrder
<1>7. ASSUME NEW i \in DOMAIN r.rows, NEW j \in DOMAIN r.rows, r.rows[i].ts = r.rows[j].ts
      PROVE  i = j
  <2>1. ~ (r.rows[i].ts < r.rows[j].ts) /\ ~ (r.rows[j].ts < r.rows[i].ts)
    BY <1>3, <1>7
  <2>2. ~ (i < j) /\ ~ (j < i)
    BY <1>5, <2>1, Zenon
  <2> QED
    BY <1>2, <2>2
<1>8. InTimeOrder(r.positions)
  <2>1. \A i, j \in DOMAIN r.positions : i < j => r.positions[i].ts <= r.positions[j].ts
    BY Zenon DEF IsResult
  <2>2. \A k \in DOMAIN r.positions : r.positions[k] \in PositionRow
    BY <1>1, LenProperties, ElementOfSeq
  <2>3. \A k \in DOMAIN r.positions : r.positions[k].ts \in Int
    BY <2>2 DEF PositionRow
  <2> QED
    BY <2>1, <2>3 DEF InTimeOrder
<1> QED
  BY <1>1, <1>2, <1>3, <1>4, <1>6, <1>7, <1>8

LEMMA BarsAsMessages ==
  ASSUME NEW r, NEW q \in Seq(BarRow)
  PROVE  /\ BarMessages(q) \in Seq(Messages(r)) /\ OfTopic(BarMessages(q), "/bars")
         /\ DOMAIN BarMessages(q) = DOMAIN q
         /\ \A k \in DOMAIN q : BarMessages(q)[k].ts = q[k].ts
<1>1. Len(q) \in Nat /\ DOMAIN q = 1 .. Len(q) /\ \A k \in 1 .. Len(q) : q[k] \in BarRow
  BY LenProperties, ElementOfSeq
<1>2. \A row \in BarRow : Message("/bars", row.ts, row.symbol) \in Messages(r)
  BY DEF Message, Messages, Topics, Bodies, BarRow
<1>3. BarMessages(q) \in [1 .. Len(q) -> Messages(r)]
  BY <1>1, <1>2 DEF BarMessages
<1>4. \A k \in DOMAIN q : BarMessages(q)[k] = Message("/bars", q[k].ts, q[k].symbol)
  BY Zenon DEF BarMessages
<1>5. \A k \in DOMAIN q : BarMessages(q)[k].topic = "/bars" /\ BarMessages(q)[k].ts = q[k].ts
  <2> DEFINE m == BarMessages(q)
  <2>1. DOMAIN m = DOMAIN q /\ \A k \in DOMAIN q : m[k] = Message("/bars", q[k].ts, q[k].symbol)
    BY <1>4, Zenon DEF BarMessages
  <2>2. \A k \in DOMAIN q : m[k].topic = "/bars" /\ m[k].ts = q[k].ts
    BY <2>1 DEF Message
  <2> QED
    BY <2>2
<1>6. BarMessages(q) \in Seq(Messages(r))
  BY <1>1, <1>3
<1> QED
  BY <1>1, <1>3, <1>5, <1>6 DEF OfTopic

LEMMA FillsAsMessages ==
  ASSUME NEW r, NEW q \in Seq(FillRow)
  PROVE  /\ FillMessages(q) \in Seq(Messages(r)) /\ OfTopic(FillMessages(q), "/fills")
         /\ DOMAIN FillMessages(q) = DOMAIN q
         /\ \A k \in DOMAIN q : FillMessages(q)[k].ts = q[k].ts
<1>1. Len(q) \in Nat /\ DOMAIN q = 1 .. Len(q) /\ \A k \in 1 .. Len(q) : q[k] \in FillRow
  BY LenProperties, ElementOfSeq
<1>2. \A row \in FillRow : Message("/fills", row.ts, <<row.symbol, row.side, row.shares>>) \in Messages(r)
  BY DEF Message, Messages, Topics, Bodies, FillRow
<1>3. FillMessages(q) \in [1 .. Len(q) -> Messages(r)]
  BY <1>1, <1>2 DEF FillMessages
<1>4. \A k \in DOMAIN q : FillMessages(q)[k] =
                           Message("/fills", q[k].ts, <<q[k].symbol, q[k].side, q[k].shares>>)
  BY Zenon DEF FillMessages
<1>5. \A k \in DOMAIN q : FillMessages(q)[k].topic = "/fills" /\ FillMessages(q)[k].ts = q[k].ts
  <2> DEFINE m == FillMessages(q)
  <2>1. DOMAIN m = DOMAIN q /\ \A k \in DOMAIN q : m[k] = Message("/fills", q[k].ts, <<q[k].symbol, q[k].side, q[k].shares>>)
    BY <1>4, Zenon DEF FillMessages
  <2>2. \A k \in DOMAIN q : m[k].topic = "/fills" /\ m[k].ts = q[k].ts
    BY <2>1 DEF Message
  <2> QED
    BY <2>2
<1>6. FillMessages(q) \in Seq(Messages(r))
  BY <1>1, <1>3
<1> QED
  BY <1>1, <1>3, <1>5, <1>6 DEF OfTopic

\* The members at some places are members at these places.
LEMMA ThoseAreMembers ==
  ASSUME NEW S, NEW q \in Seq(S), NEW P
  PROVE  /\ Those(q, P) \in Seq(S)
         /\ \A k \in DOMAIN Those(q, P) : \E j \in P : Those(q, P)[k] = q[j]
<1>1. Len(q) \in Nat /\ DOMAIN q = 1 .. Len(q) /\ \A k \in 1 .. Len(q) : q[k] \in S
  BY LenProperties, ElementOfSeq
<1>2. PICK f : IsPick(f, q, P, S) /\ Those(q, P) = f[Len(q)]
  BY ThoseStepByStep
<1> DEFINE Members(s) == \A i \in DOMAIN s : \E j \in P : s[i] = q[j]
           Good == {k \in 0 .. Len(q) : Members(f[k])}
<1>3. ASSUME NEW k \in 1 .. Len(q), k - 1 \in Good
      PROVE  k \in Good
  <2>1. f[k] = IF k \in P THEN Append(f[k - 1], q[k]) ELSE f[k - 1]
    BY <1>2 DEF IsPick
  <2>2. f[k - 1] \in Seq(S) /\ q[k] \in S
    <3>1. k - 1 \in 0 .. Len(q)
      BY <1>1
    <3> QED
      BY <1>1, <1>2, <3>1 DEF IsPick
  <2>3. Members(f[k - 1])
    BY <1>3
  <2>4. CASE k \in P
    <3> DEFINE n == Len(f[k - 1])
    <3>1. /\ n \in Nat /\ DOMAIN f[k - 1] = 1 .. n /\ DOMAIN f[k] = 1 .. n + 1
          /\ \A i \in 1 .. n : f[k][i] = f[k - 1][i]
          /\ f[k][n + 1] = q[k]
      BY <2>1, <2>2, <2>4, AppendProperties, LenProperties
    <3> HIDE DEF n
    <3>2. Members(f[k])
      BY <2>3, <2>4, <3>1
    <3> QED
      BY <3>2
  <2>5. CASE k \notin P
    BY <2>1, <2>3, <2>5
  <2> QED
    BY <2>4, <2>5
<1>4. 0 \in Good
  <2>1. f[0] = <<>> /\ DOMAIN <<>> = {}
    BY <1>2 DEF IsPick
  <2>2. Members(f[0])
    BY <2>1
  <2> QED
    BY <1>1, <2>2
<1> HIDE DEF Good
<1>5. Len(q) \in Good
  <2>1. \A k \in 0 .. Len(q) : k \in Good
    BY <1>1, <1>3, <1>4, UpToN
  <2> QED
    BY <1>1, <2>1
<1>6. f[Len(q)] \in Seq(S)
  BY <1>1, <1>2 DEF IsPick
<1> QED
  BY <1>2, <1>5, <1>6 DEF Good

LEMMA AtIsOfTime ==
  ASSUME NEW S, NEW q \in Seq(S), NEW ts
  PROVE  At(q, ts) \in Seq(S) /\ OfTime(At(q, ts), ts)
<1> DEFINE P == {k \in DOMAIN q : q[k].ts = ts}
<1>1. At(q, ts) = Those(q, P) /\ \A k \in P : q[k].ts = ts
  BY DEF At
<1> HIDE DEF P
<1>2. Those(q, P) \in Seq(S) /\ \A k \in DOMAIN Those(q, P) : \E j \in P : Those(q, P)[k] = q[j]
  BY ThoseAreMembers
<1> QED
  BY <1>1, <1>2 DEF OfTime

\* The bars logged at a time are those of the frame at the time.
LEMMA BarsAtATime ==
  ASSUME NEW q \in Seq(BarRow), NEW ts
  PROVE  Stamped(BarMessages(q), "/bars", ts) = BarMessages(At(q, ts))
<1> DEFINE h == [row \in BarRow |-> Message("/bars", row.ts, row.symbol)]
           m == BarMessages(q)
           P == {k \in DOMAIN q : q[k].ts = ts}
           Q == {k \in DOMAIN m : m[k].topic = "/bars" /\ m[k].ts = ts}
<1> DEFINE T == [topic : {"/bars"}, ts : Int, body : STRING]
<1>1. Maps(h, BarRow, T)
  BY DEF BarRow, Message, Maps
<1>2. ASSUME NEW s \in Seq(BarRow)
      PROVE  BarMessages(s) = Image(h, s)
  <2>1. \A k \in DOMAIN s : s[k] \in BarRow
    BY LenProperties, ElementOfSeq
  <2>2. \A k \in DOMAIN s : h[s[k]] = Message("/bars", s[k].ts, s[k].symbol)
    BY <2>1
  <2> HIDE DEF h
  <2> QED
    BY <2>2, Zenon DEF BarMessages, Image
<1>3. P = Q
  <2>1. DOMAIN m = DOMAIN q /\ \A k \in DOMAIN q : m[k] = Message("/bars", q[k].ts, q[k].symbol)
    BY Zenon DEF BarMessages
  <2>2. \A k \in DOMAIN q : m[k].topic = "/bars" /\ m[k].ts = q[k].ts
    BY <2>1 DEF Message
  <2> HIDE DEF m
  <2> QED
    BY <2>1, <2>2
<1>4. Stamped(m, "/bars", ts) = Those(m, Q) /\ At(q, ts) = Those(q, P)
  BY Zenon DEF Stamped, At
<1> HIDE DEF h, P, Q, T
<1>5. Those(q, P) \in Seq(BarRow) /\ Those(Image(h, q), P) = Image(h, Those(q, P))
  <2>1. ImageOfThose(h, q, BarRow, P)
    BY <1>1, ThoseOfImage, Zenon
  <2> QED
    BY <2>1, Zenon DEF ImageOfThose
<1>6. m = Image(h, q) /\ BarMessages(Those(q, P)) = Image(h, Those(q, P))
  BY <1>2, <1>5, Zenon
<1> QED
  BY <1>3, <1>4, <1>5, <1>6, Zenon

LEMMA FillsAtATime ==
  ASSUME NEW q \in Seq(FillRow), NEW ts
  PROVE  Stamped(FillMessages(q), "/fills", ts) = FillMessages(At(q, ts))
<1> DEFINE h == [row \in FillRow |-> Message("/fills", row.ts, <<row.symbol, row.side, row.shares>>)]
           m == FillMessages(q)
           P == {k \in DOMAIN q : q[k].ts = ts}
           Q == {k \in DOMAIN m : m[k].topic = "/fills" /\ m[k].ts = ts}
<1> DEFINE T == [topic : {"/fills"}, ts : Int, body : STRING \X STRING \X Int]
<1>1. Maps(h, FillRow, T)
  BY DEF FillRow, Message, Maps
<1>2. ASSUME NEW s \in Seq(FillRow)
      PROVE  FillMessages(s) = Image(h, s)
  <2>1. \A k \in DOMAIN s : s[k] \in FillRow
    BY LenProperties, ElementOfSeq
  <2>2. \A k \in DOMAIN s :
          h[s[k]] = Message("/fills", s[k].ts, <<s[k].symbol, s[k].side, s[k].shares>>)
    BY <2>1
  <2> HIDE DEF h
  <2> QED
    BY <2>2, Zenon DEF FillMessages, Image
<1>3. P = Q
  <2>1. DOMAIN m = DOMAIN q
        /\ \A k \in DOMAIN q : m[k] = Message("/fills", q[k].ts, <<q[k].symbol, q[k].side, q[k].shares>>)
    BY Zenon DEF FillMessages
  <2>2. \A k \in DOMAIN q : m[k].topic = "/fills" /\ m[k].ts = q[k].ts
    BY <2>1 DEF Message
  <2> HIDE DEF m
  <2> QED
    BY <2>1, <2>2
<1>4. Stamped(m, "/fills", ts) = Those(m, Q) /\ At(q, ts) = Those(q, P)
  BY Zenon DEF Stamped, At
<1> HIDE DEF h, P, Q, T
<1>5. Those(q, P) \in Seq(FillRow) /\ Those(Image(h, q), P) = Image(h, Those(q, P))
  <2>1. ImageOfThose(h, q, FillRow, P)
    BY <1>1, ThoseOfImage, Zenon
  <2> QED
    BY <2>1, Zenon DEF ImageOfThose
<1>6. m = Image(h, q) /\ FillMessages(Those(q, P)) = Image(h, Those(q, P))
  BY <1>2, <1>5, Zenon
<1> QED
  BY <1>3, <1>4, <1>5, <1>6, Zenon

\* The equity logged, and what the log has of a row.
EquityPart(r) == [i \in DOMAIN r.rows |-> EquityMessage(r.rows, i)]

LEMMA EquityAsMessages ==
  ASSUME NEW r, IsResult(r)
  PROVE  /\ EquityPart(r) \in Seq(Messages(r)) /\ OfTopic(EquityPart(r), "/equity")
         /\ \A i \in DOMAIN r.rows :
              /\ EquityMessage(r.rows, i) \in Messages(r)
              /\ EquityMessage(r.rows, i).topic = "/equity"
              /\ EquityMessage(r.rows, i).ts = r.rows[i].ts
              /\ Stamped(EquityPart(r), "/equity", r.rows[i].ts) = <<EquityMessage(r.rows, i)>>
         /\ \A ts : ts \notin Times(r.rows) => Stamped(EquityPart(r), "/equity", ts) = <<>>
<1>1. /\ DOMAIN r.rows = 1 .. Len(r.rows) /\ Len(r.rows) \in Nat
      /\ \A i \in DOMAIN r.rows : r.rows[i].ts \in Int
      /\ \A i, j \in DOMAIN r.rows : r.rows[i].ts = r.rows[j].ts => i = j
  BY FrameTypes
<1>2. \A i \in DOMAIN r.rows :
        /\ EquityMessage(r.rows, i).topic = "/equity"
        /\ EquityMessage(r.rows, i).ts = r.rows[i].ts
  BY DEF EquityMessage, Message
<1>3. ASSUME NEW i \in DOMAIN r.rows
      PROVE  EquityMessage(r.rows, i) \in Messages(r)
  <2> DEFINE body == [equity |-> r.rows[i].equity, drawdown |-> Drawdown(r.rows, i)]
  <2>1. EquityMessage(r.rows, i) = [topic |-> "/equity", ts |-> r.rows[i].ts, body |-> body]
    BY DEF EquityMessage, Message
  <2> HIDE DEF body
  <2>2. EquityMessage(r.rows, i).body = body
    BY <2>1
  <2>3. body \in Bodies(r)
    BY <2>2, Zenon DEF Bodies
  <2> QED
    BY <1>1, <2>1, <2>3 DEF Messages, Topics
<1>4. EquityPart(r) \in [1 .. Len(r.rows) -> Messages(r)]
  BY <1>1, <1>3 DEF EquityPart
<1>5. EquityPart(r) \in Seq(Messages(r)) /\ DOMAIN EquityPart(r) = DOMAIN r.rows
  BY <1>1, <1>4
<1>6. \A i \in DOMAIN r.rows : EquityPart(r)[i] = EquityMessage(r.rows, i)
  BY Zenon DEF EquityPart
<1>7. OfTopic(EquityPart(r), "/equity")
  BY <1>2, <1>5, <1>6 DEF OfTopic
<1>8. ASSUME NEW i \in DOMAIN r.rows
      PROVE  Stamped(EquityPart(r), "/equity", r.rows[i].ts) = <<EquityMessage(r.rows, i)>>
  <2> DEFINE P == {k \in DOMAIN EquityPart(r) : EquityPart(r)[k].topic = "/equity"
                                              /\ EquityPart(r)[k].ts = r.rows[i].ts}
  <2>1. Stamped(EquityPart(r), "/equity", r.rows[i].ts) = Those(EquityPart(r), P)
    BY Zenon DEF Stamped
  <2>2. \A k \in DOMAIN EquityPart(r) : k \in P <=> k = i
    BY <1>1, <1>2, <1>5, <1>6
  <2> HIDE DEF P
  <2>3. Those(EquityPart(r), P) = <<EquityPart(r)[i]>>
    BY <1>5, <2>2, ThoseAtOnePlace
  <2> QED
    BY <1>6, <2>1, <2>3
<1>9. ASSUME NEW ts, ts \notin Times(r.rows)
      PROVE  Stamped(EquityPart(r), "/equity", ts) = <<>>
  <2>1. \A k \in DOMAIN EquityPart(r) : EquityPart(r)[k].ts # ts
    BY <1>2, <1>5, <1>6, <1>9 DEF Times
  <2> QED
    BY <1>5, <2>1, NothingStamped
<1> QED
  BY <1>2, <1>3, <1>5, <1>7, <1>8, <1>9

LEMMA PortfolioAsMessage ==
  ASSUME NEW r, NEW ts \in Int, NEW e \in Int, NEW p \in Seq(PositionRow)
  PROVE  /\ PortfolioMessage(ts, e, p) \in Messages(r)
         /\ PortfolioMessage(ts, e, p).topic = "/portfolio" /\ PortfolioMessage(ts, e, p).ts = ts
<1> DEFINE body == [k \in DOMAIN p |-> <<p[k].symbol, Weight(p[k], e)>>]
<1>1. /\ PortfolioMessage(ts, e, p) = [topic |-> "/portfolio", ts |-> ts, body |-> body]
      /\ PortfolioMessage(0, e, p) = [topic |-> "/portfolio", ts |-> 0, body |-> body]
  BY Zenon DEF PortfolioMessage, Message
<1> HIDE DEF body
<1>2. PortfolioMessage(0, e, p).body = body
  BY <1>1
<1> DEFINE Snapshots(x) == {PortfolioMessage(0, x, q).body : q \in Seq(PositionRow)}
<1>3. body \in Snapshots(e)
  BY <1>2, Zenon
<1>4. Bodies(r) = STRING \cup (STRING \X STRING \X Int)
                   \cup {EquityMessage(r.rows, i).body : i \in DOMAIN r.rows}
                   \cup UNION {Snapshots(x) : x \in Int}
  BY Zenon DEF Bodies
<1> HIDE DEF Snapshots
<1>5. body \in UNION {Snapshots(x) : x \in Int}
  BY <1>3
<1>6. body \in Bodies(r)
  BY <1>4, <1>5
<1> QED
  BY <1>1, <1>6 DEF Messages, Topics

LEMMA HeldAsMessages ==
  ASSUME NEW r, NEW ts \in Int, NEW e \in Int, NEW p \in Seq(PositionRow)
  PROVE  /\ Held(ts, e, p) \in Seq(Messages(r)) /\ OfTopic(Held(ts, e, p), "/portfolio")
         /\ OfTime(Held(ts, e, p), ts)
<1>1. CASE p = <<>>
  <2>1. Held(ts, e, p) = <<>> /\ DOMAIN <<>> = {} /\ <<>> \in Seq(Messages(r))
    BY <1>1 DEF Held
  <2> QED
    BY <2>1 DEF OfTopic, OfTime
<1>2. CASE p # <<>>
  <2> DEFINE m == PortfolioMessage(ts, e, p)
  <2>1. m \in Messages(r) /\ m.topic = "/portfolio" /\ m.ts = ts
    BY PortfolioAsMessage
  <2>2. Held(ts, e, p) = <<m>>
    BY <1>2, Zenon DEF Held
  <2> HIDE DEF m
  <2>3. <<m>> \in Seq(Messages(r)) /\ DOMAIN <<m>> = {1} /\ <<m>>[1] = m
    BY <2>1
  <2> QED
    BY <2>1, <2>2, <2>3 DEF OfTopic, OfTime
<1> QED
  BY <1>1, <1>2

\* Of a frame a lookup can find all or none.
LEMMA KeyedFrames ==
  ASSUME NEW r, IsResult(r)
  PROVE  /\ Keyed(r, r.bars) \in Seq(BarRow) /\ Keyed(r, r.positions) \in Seq(PositionRow)
         /\ Keyed(r, r.fills) \in Seq(FillRow)
         /\ r.alike => /\ Keyed(r, r.rows) = r.rows /\ Keyed(r, r.bars) = r.bars
                       /\ Keyed(r, r.positions) = r.positions /\ Keyed(r, r.fills) = r.fills
         /\ ~ r.alike => /\ Keyed(r, r.rows) = <<>> /\ Keyed(r, r.bars) = <<>>
                         /\ Keyed(r, r.positions) = <<>> /\ Keyed(r, r.fills) = <<>>
<1>1. r.bars \in Seq(BarRow) /\ r.positions \in Seq(PositionRow) /\ r.fills \in Seq(FillRow)
  BY FrameTypes
<1>2. <<>> \in Seq(BarRow) /\ <<>> \in Seq(PositionRow) /\ <<>> \in Seq(FillRow)
  OBVIOUS
<1>3. CASE r.alike
  BY <1>1, <1>3, Zenon DEF Keyed
<1>4. CASE ~ r.alike
  BY <1>2, <1>4, Zenon DEF Keyed
<1> QED
  BY <1>3, <1>4

LEMMA EquityOfRow ==
  ASSUME NEW r, IsResult(r), NEW i \in DOMAIN r.rows
  PROVE  EquityAt(r.rows, r.rows[i].ts) = r.rows[i].equity
<1> DEFINE at == {k \in DOMAIN r.rows : r.rows[k].ts = r.rows[i].ts}
<1>1. at = {i} /\ i \in Nat
  BY FrameTypes
<1>2. Max({i}) = i
  <2>1. i \in 1 .. i /\ {i} \in SUBSET (1 .. i) /\ i \in {i}
    BY <1>1, FrameTypes
  <2> QED
    BY <1>1, <2>1, MaxIsTop
<1>3. EquityAt(r.rows, r.rows[i].ts) = IF at = {} THEN 0 ELSE r.rows[Max(at)].equity
  BY Zenon DEF EquityAt
<1> HIDE DEF at
<1> QED
  BY <1>1, <1>2, <1>3

\* The snapshots of the log.
PortfolioPart(r) ==
  [k \in DOMAIN Groups(r.positions) |-> Snapshot(Keyed(r, r.rows), Groups(r.positions)[k])]

LEMMA PortfolioAsMessages ==
  ASSUME NEW r, IsResult(r)
  PROVE  /\ PortfolioPart(r) \in Seq(Messages(r)) /\ OfTopic(PortfolioPart(r), "/portfolio")
         /\ r.alike => \A i \in DOMAIN r.rows :
              Stamped(PortfolioPart(r), "/portfolio", r.rows[i].ts) =
                Held(r.rows[i].ts, r.rows[i].equity, At(r.positions, r.rows[i].ts))
         /\ \A ts : ts \notin Times(r.rows) => Stamped(PortfolioPart(r), "/portfolio", ts) = <<>>
<1> DEFINE g == Groups(r.positions)
           part == PortfolioPart(r)
           n == Len(g)
<1>1. /\ r.positions \in Seq(PositionRow) /\ InTimeOrder(r.positions)
      /\ DOMAIN r.rows = 1 .. Len(r.rows) /\ Len(r.rows) \in Nat
      /\ \A i \in DOMAIN r.rows : r.rows[i].ts \in Int /\ r.rows[i].equity \in Int
  BY FrameTypes
<1>2. Times(r.positions) \subseteq Times(r.rows)
  BY Zenon DEF IsResult
<1>3. \A ts : GroupsSoFar(g, PositionRow, r.positions, Len(r.positions), ts, At(r.positions, ts))
  BY <1>1, GroupsAreByTime
<1> HIDE DEF g
<1>4. /\ g \in Seq(Seq(PositionRow))
      /\ \A j \in 1 .. n : Len(g[j]) > 0 /\ g[j][1].ts \in Times(r.positions)
      /\ \A i, j \in 1 .. n : i < j => g[i][1].ts < g[j][1].ts
  BY <1>3, Zenon DEF GroupsSoFar
<1>5. \A ts : /\ \A j \in 1 .. n : g[j][1].ts = ts => g[j] = At(r.positions, ts)
              /\ At(r.positions, ts) # <<>> => \E j \in 1 .. n : g[j][1].ts = ts
  BY <1>3, Zenon DEF GroupsSoFar
<1>6. n \in Nat /\ DOMAIN g = 1 .. n /\ \A j \in 1 .. n : g[j] \in Seq(PositionRow)
  BY <1>4, LenProperties, ElementOfSeq
<1>7. \A j \in 1 .. n : \E i \in DOMAIN r.rows : g[j][1].ts = r.rows[i].ts
  BY <1>2, <1>4 DEF Times
<1>8. \A j \in 1 .. n : part[j] = PortfolioMessage(g[j][1].ts, EquityAt(Keyed(r, r.rows), g[j][1].ts), g[j])
  BY <1>6, Zenon DEF PortfolioPart, Snapshot, g
<1>9. ASSUME NEW j \in 1 .. n
      PROVE  /\ part[j] \in Messages(r) /\ part[j].topic = "/portfolio" /\ part[j].ts = g[j][1].ts
             /\ g[j][1].ts \in Int
  <2>1. PICK i \in DOMAIN r.rows : g[j][1].ts = r.rows[i].ts
    BY <1>7
  <2> DEFINE e == EquityAt(Keyed(r, r.rows), g[j][1].ts)
  <2>2. e \in Int
    <3>1. CASE r.alike
      <4>1. e = r.rows[i].equity
        BY <2>1, <3>1, EquityOfRow, KeyedFrames
      <4> QED
        BY <1>1, <4>1
    <3>2. CASE ~ r.alike
      <4>1. Keyed(r, r.rows) = <<>> /\ DOMAIN <<>> = {}
        BY <3>2, KeyedFrames
      <4>2. e = 0
        BY <4>1 DEF EquityAt
      <4> QED
        BY <4>2
    <3> QED
      BY <3>1, <3>2
  <2>3. g[j][1].ts \in Int /\ g[j] \in Seq(PositionRow)
    BY <1>1, <1>6, <2>1
  <2>4. part[j] = PortfolioMessage(g[j][1].ts, e, g[j])
    BY <1>8
  <2> DEFINE m == PortfolioMessage(g[j][1].ts, e, g[j])
  <2> HIDE DEF e
  <2>5. m \in Messages(r) /\ m.topic = "/portfolio" /\ m.ts = g[j][1].ts
    BY <2>2, <2>3, PortfolioAsMessage
  <2> HIDE DEF part, m
  <2>6. part[j] = m
    BY <2>4, Zenon DEF m
  <2> QED
    BY <2>3, <2>5, <2>6
<1>10. part \in Seq(Messages(r)) /\ DOMAIN part = 1 .. n
  <2>1. DOMAIN part = 1 .. n /\ part = [k \in 1 .. n |-> part[k]]
    BY <1>6 DEF PortfolioPart, g
  <2> HIDE DEF part, n
  <2>2. part \in [1 .. n -> Messages(r)]
    BY <1>9, <2>1
  <2> QED
    BY <1>6, <2>1, <2>2
<1>11. OfTopic(part, "/portfolio")
  BY <1>9, <1>10 DEF OfTopic
<1>12. \A i, j \in 1 .. n : g[i][1].ts = g[j][1].ts => i = j
  <2>1. ASSUME NEW i \in 1 .. n, NEW j \in 1 .. n, g[i][1].ts = g[j][1].ts
        PROVE  i = j
    <3>1. ~ (g[i][1].ts < g[j][1].ts) /\ ~ (g[j][1].ts < g[i][1].ts)
      BY <1>9, <2>1
    <3>2. ~ (i < j) /\ ~ (j < i)
      BY <1>4, <3>1, Zenon
    <3> QED
      BY <1>6, <3>2
  <2> QED
    BY <2>1
<1> HIDE DEF part, n
<1>13. ASSUME r.alike, NEW i \in DOMAIN r.rows
       PROVE  Stamped(part, "/portfolio", r.rows[i].ts) =
                Held(r.rows[i].ts, r.rows[i].equity, At(r.positions, r.rows[i].ts))
  <2> DEFINE ts == r.rows[i].ts
             P == {k \in DOMAIN part : part[k].topic = "/portfolio" /\ part[k].ts = ts}
  <2>1. Stamped(part, "/portfolio", ts) = Those(part, P)
    BY Zenon DEF Stamped
  <2> HIDE DEF ts
  <2>2. \A k \in DOMAIN part : k \in P <=> g[k][1].ts = ts
    BY <1>9, <1>10
  <2> HIDE DEF P
  <2>3. CASE \E j \in 1 .. n : g[j][1].ts = ts
    <3>1. PICK j \in 1 .. n : g[j][1].ts = ts
      BY <2>3
    <3>2. Those(part, P) = <<part[j]>>
      <4>1. j \in DOMAIN part /\ \A k \in DOMAIN part : k \in P <=> k = j
        BY <1>10, <1>12, <2>2, <3>1
      <4> QED
        BY <1>10, <4>1, ThoseAtOnePlace
    <3>3. g[j] = At(r.positions, ts) /\ g[j] # <<>>
      <4>1. g[j] = At(r.positions, ts)
        BY <1>5, <3>1, Zenon
      <4>2. Len(g[j]) > 0 /\ g[j] \in Seq(PositionRow)
        BY <1>4, <1>6
      <4> QED
        BY <4>1, <4>2
    <3>4. part[j] = PortfolioMessage(ts, r.rows[i].equity, g[j])
      <4>1. Keyed(r, r.rows) = r.rows
        BY <1>13, KeyedFrames
      <4> QED
        BY <1>8, <3>1, <4>1, EquityOfRow, Zenon DEF ts
    <3>5. Held(ts, r.rows[i].equity, At(r.positions, ts)) = <<part[j]>>
      BY <3>3, <3>4, Zenon DEF Held
    <3> QED
      BY <2>1, <3>2, <3>5, Zenon DEF ts
  <2>4. CASE ~ \E j \in 1 .. n : g[j][1].ts = ts
    <3>1. Those(part, P) = <<>>
      <4>1. \A k \in DOMAIN part : k \notin P
        BY <1>10, <2>2, <2>4
      <4> QED
        BY <1>10, <4>1, ThoseAtNoPlace
    <3>2. At(r.positions, ts) = <<>>
      BY <1>5, <2>4, Zenon
    <3> QED
      BY <2>1, <3>1, <3>2, Zenon DEF Held, ts
  <2> QED
    BY <2>3, <2>4, Zenon
<1>14. ASSUME NEW ts, ts \notin Times(r.rows)
       PROVE  Stamped(part, "/portfolio", ts) = <<>>
  <2>1. \A k \in DOMAIN part : part[k].ts # ts
    BY <1>2, <1>4, <1>9, <1>10, <1>14
  <2> QED
    BY <1>10, <2>1, NothingStamped
<1> QED
  BY <1>10, <1>11, <1>13, <1>14, Zenon DEF part

\* The fills of the log.
LEMMA TimedFills ==
  ASSUME NEW r, IsResult(r)
  PROVE  /\ Timed(r.fills) \in Seq(FillRow)
         /\ \A k \in DOMAIN Timed(r.fills) : Timed(r.fills)[k].ts \in Times(r.rows)
<1> DEFINE P == {k \in DOMAIN r.fills : r.fills[k].ts # NoTime}
<1>1. r.fills \in Seq(FillRow)
  BY FrameTypes
<1>2. Timed(r.fills) = Those(r.fills, P)
  BY Zenon DEF Timed
<1>3. \A j \in P : r.fills[j].ts \in Times(r.rows)
  <2>1. Times(r.fills) \ {NoTime} \subseteq Times(r.rows)
    BY Zenon DEF IsResult
  <2> QED
    BY <2>1 DEF Times
<1> HIDE DEF P
<1>4. /\ Those(r.fills, P) \in Seq(FillRow)
      /\ \A k \in DOMAIN Those(r.fills, P) : \E j \in P : Those(r.fills, P)[k] = r.fills[j]
  BY <1>1, ThoseAreMembers
<1> QED
  BY <1>2, <1>3, <1>4

LEMMA RestOfTheLog ==
  ASSUME NEW r, IsResult(r)
  PROVE  /\ \A i \in DOMAIN r.rows :
              /\ Stamped(BarMessages(r.bars), "/bars", r.rows[i].ts) =
                   BarMessages(At(r.bars, r.rows[i].ts))
              /\ Stamped(FillMessages(Timed(r.fills)), "/fills", r.rows[i].ts) =
                   FillMessages(At(r.fills, r.rows[i].ts))
         /\ \A ts : ts \notin Times(r.rows) =>
              /\ Stamped(BarMessages(r.bars), "/bars", ts) = <<>>
              /\ Stamped(FillMessages(Timed(r.fills)), "/fills", ts) = <<>>
<1>1. r.bars \in Seq(BarRow) /\ r.fills \in Seq(FillRow) /\ Timed(r.fills) \in Seq(FillRow)
  BY FrameTypes, TimedFills
<1>2. ASSUME NEW i \in DOMAIN r.rows
      PROVE  /\ Stamped(BarMessages(r.bars), "/bars", r.rows[i].ts) =
                  BarMessages(At(r.bars, r.rows[i].ts))
             /\ Stamped(FillMessages(Timed(r.fills)), "/fills", r.rows[i].ts) =
                  FillMessages(At(r.fills, r.rows[i].ts))
  <2>1. At(Timed(r.fills), r.rows[i].ts) = At(r.fills, r.rows[i].ts)
    <3>1. r.rows[i].ts # NoTime
      BY FrameTypes
    <3> QED
      BY <1>1, <3>1, AtOfTimed
  <2>2. Stamped(BarMessages(r.bars), "/bars", r.rows[i].ts) = BarMessages(At(r.bars, r.rows[i].ts))
    BY <1>1, BarsAtATime
  <2>3. Stamped(FillMessages(Timed(r.fills)), "/fills", r.rows[i].ts) =
          FillMessages(At(Timed(r.fills), r.rows[i].ts))
    BY <1>1, FillsAtATime
  <2> QED
    BY <2>1, <2>2, <2>3, Zenon
<1>3. ASSUME NEW ts, ts \notin Times(r.rows)
      PROVE  /\ Stamped(BarMessages(r.bars), "/bars", ts) = <<>>
             /\ Stamped(FillMessages(Timed(r.fills)), "/fills", ts) = <<>>
  <2>1. Times(r.bars) \subseteq Times(r.rows)
    BY Zenon DEF IsResult
  <2>2. \A k \in DOMAIN BarMessages(r.bars) : BarMessages(r.bars)[k].ts # ts
    <3>1. \A k \in DOMAIN r.bars : r.bars[k].ts # ts
      BY <1>3, <2>1 DEF Times
    <3> QED
      BY <1>1, <3>1, BarsAsMessages
  <2>3. \A k \in DOMAIN FillMessages(Timed(r.fills)) : FillMessages(Timed(r.fills))[k].ts # ts
    <3>1. \A k \in DOMAIN Timed(r.fills) : Timed(r.fills)[k].ts # ts
      BY <1>3, TimedFills
    <3> QED
      BY <1>1, <3>1, FillsAsMessages
  <2>4. BarMessages(r.bars) \in Seq(Messages(r)) /\ FillMessages(Timed(r.fills)) \in Seq(Messages(r))
    BY <1>1, BarsAsMessages, FillsAsMessages
  <2> QED
    BY <2>2, <2>3, <2>4, NothingStamped
<1> QED
  BY <1>2, <1>3

-----------------------------------------------------------------------------
(* A pass of the replay and the log *)

\* Of one time, as what they are joined of.
LEMMA JoinedOfTime ==
  ASSUME NEW S, NEW s \in Seq(S), NEW t \in Seq(S), NEW ts, OfTime(s, ts), OfTime(t, ts)
  PROVE  OfTime(s \o t, ts)
<1> DEFINE u == s \o t
<1>1. /\ Len(s) \in Nat /\ DOMAIN s = 1 .. Len(s)
      /\ Len(t) \in Nat /\ DOMAIN t = 1 .. Len(t)
  BY LenProperties
<1>2. u \in Seq(S) /\ Len(u) = Len(s) + Len(t)
      /\ \A i \in 1 .. Len(s) + Len(t) : u[i] = IF i <= Len(s) THEN s[i] ELSE t[i - Len(s)]
  BY ConcatProperties
<1> HIDE DEF u
<1>3. DOMAIN u = 1 .. Len(s) + Len(t)
  BY <1>2, LenProperties
<1>4. ASSUME NEW k \in DOMAIN u
      PROVE  u[k].ts = ts
  <2>1. CASE k <= Len(s)
    <3>1. k \in DOMAIN s /\ u[k] = s[k]
      BY <1>1, <1>2, <1>3, <2>1
    <3> QED
      BY <3>1 DEF OfTime
  <2>2. CASE ~ k <= Len(s)
    <3>1. k - Len(s) \in DOMAIN t /\ u[k] = t[k - Len(s)]
      BY <1>1, <1>2, <1>3, <2>2
    <3> QED
      BY <3>1 DEF OfTime
  <2> QED
    BY <2>1, <2>2
<1>5. OfTime(u, ts)
  BY <1>4, Zenon DEF OfTime
<1> QED
  BY <1>5, Zenon DEF u

LEMMA FourOfTime ==
  ASSUME NEW S, NEW a \in Seq(S), NEW b \in Seq(S), NEW c \in Seq(S), NEW d \in Seq(S), NEW u,
         NEW ts, JoinsFour(u, a, b, c, d), OfTime(a, ts), OfTime(b, ts), OfTime(c, ts), OfTime(d, ts)
  PROVE  OfTime(u, ts)
<1> DEFINE ab == a \o b
           abc == ab \o c
<1>1. ab \in Seq(S) /\ abc \in Seq(S)
  OBVIOUS
<1>2. OfTime(ab, ts)
  BY JoinedOfTime
<1> HIDE DEF ab
<1>3. OfTime(abc, ts)
  BY <1>1, <1>2, JoinedOfTime
<1> HIDE DEF abc
<1>4. OfTime(abc \o d, ts)
  BY <1>1, <1>3, JoinedOfTime
<1> QED
  BY <1>4, Zenon DEF JoinsFour, ab, abc

\* What the replay has of a row is of the row's time; what it has on each topic.
LEMMA RowAsMessages ==
  ASSUME NEW r, IsResult(r), NEW i \in DOMAIN r.rows, NEW ts, ts = r.rows[i].ts
  PROVE  /\ OfRow(r, i) \in Seq(Messages(r)) /\ OfTime(OfRow(r, i), ts)
         /\ Stamped(OfRow(r, i), "/bars", ts) = BarMessages(At(Keyed(r, r.bars), ts))
         /\ Stamped(OfRow(r, i), "/equity", ts) = <<EquityMessage(r.rows, i)>>
         /\ Stamped(OfRow(r, i), "/portfolio", ts) =
              Held(ts, r.rows[i].equity, At(Keyed(r, r.positions), ts))
         /\ Stamped(OfRow(r, i), "/fills", ts) = FillMessages(At(Keyed(r, r.fills), ts))
<1> DEFINE S == Messages(r)
           a == BarMessages(At(Keyed(r, r.bars), ts))
           m == EquityMessage(r.rows, i)
           b == <<m>>
           c == Held(ts, r.rows[i].equity, At(Keyed(r, r.positions), ts))
           d == FillMessages(At(Keyed(r, r.fills), ts))
           u == OfRow(r, i)
<1>1. /\ Keyed(r, r.bars) \in Seq(BarRow) /\ Keyed(r, r.positions) \in Seq(PositionRow)
      /\ Keyed(r, r.fills) \in Seq(FillRow)
      /\ ts \in Int /\ r.rows[i].equity \in Int
  BY FrameTypes, KeyedFrames
<1>2. JoinsFour(u, a, b, c, d)
  BY Zenon DEF OfRow, JoinsFour
<1>3. a \in Seq(S) /\ OfTopic(a, "/bars") /\ OfTime(a, ts)
  <2>1. At(Keyed(r, r.bars), ts) \in Seq(BarRow) /\ OfTime(At(Keyed(r, r.bars), ts), ts)
    BY <1>1, AtIsOfTime
  <2>2. /\ a \in Seq(S) /\ OfTopic(a, "/bars") /\ DOMAIN a = DOMAIN At(Keyed(r, r.bars), ts)
        /\ \A k \in DOMAIN At(Keyed(r, r.bars), ts) : a[k].ts = At(Keyed(r, r.bars), ts)[k].ts
    BY <2>1, BarsAsMessages
  <2> HIDE DEF a
  <2> QED
    BY <2>1, <2>2 DEF OfTime
<1>4. d \in Seq(S) /\ OfTopic(d, "/fills") /\ OfTime(d, ts)
  <2>1. At(Keyed(r, r.fills), ts) \in Seq(FillRow) /\ OfTime(At(Keyed(r, r.fills), ts), ts)
    BY <1>1, AtIsOfTime
  <2>2. /\ d \in Seq(S) /\ OfTopic(d, "/fills") /\ DOMAIN d = DOMAIN At(Keyed(r, r.fills), ts)
        /\ \A k \in DOMAIN At(Keyed(r, r.fills), ts) : d[k].ts = At(Keyed(r, r.fills), ts)[k].ts
    BY <2>1, FillsAsMessages
  <2> HIDE DEF d
  <2> QED
    BY <2>1, <2>2 DEF OfTime
<1>5. m \in S /\ m.topic = "/equity" /\ m.ts = ts
  BY EquityAsMessages
<1>6. c \in Seq(S) /\ OfTopic(c, "/portfolio") /\ OfTime(c, ts)
  <2>1. At(Keyed(r, r.positions), ts) \in Seq(PositionRow)
    BY <1>1, AtIsOfTime
  <2> QED
    BY <1>1, <2>1, HeldAsMessages
<1> HIDE DEF m, S, a, c, d, u
<1>7. b \in Seq(S) /\ DOMAIN b = {1} /\ b[1] = m
  BY <1>5
<1>8. OfTopic(b, "/equity") /\ OfTime(b, ts)
  <2>1. \A k \in DOMAIN b : b[k] = m
    BY <1>7
  <2> HIDE DEF b
  <2> QED
    BY <1>5, <2>1 DEF OfTopic, OfTime
<1> HIDE DEF b
<1>9. /\ u \in Seq(S)
      /\ Stamped(u, "/bars", ts) = Stamped(a, "/bars", ts)
      /\ Stamped(u, "/equity", ts) = Stamped(b, "/equity", ts)
      /\ Stamped(u, "/portfolio", ts) = Stamped(c, "/portfolio", ts)
      /\ Stamped(u, "/fills", ts) = Stamped(d, "/fills", ts)
  <2>1. \A topic : /\ u \in Seq(S)
                   /\ FourApart(u, a, b, c, d, "/bars", "/equity", "/portfolio", "/fills", topic, ts)
    <3>1. OnFour(a, b, c, d, "/bars", "/equity", "/portfolio", "/fills")
      BY <1>3, <1>4, <1>6, <1>8 DEF OnFour
    <3> QED
      BY <1>2, <1>3, <1>4, <1>6, <1>7, <3>1, StampedOfFour, Zenon
  <2> QED
    BY <2>1, Zenon DEF FourApart
<1>10. OfTime(u, ts)
  BY <1>2, <1>3, <1>4, <1>6, <1>7, <1>8, FourOfTime
<1>11. /\ Stamped(a, "/bars", ts) = a /\ Stamped(b, "/equity", ts) = b
       /\ Stamped(c, "/portfolio", ts) = c /\ Stamped(d, "/fills", ts) = d
  BY <1>3, <1>4, <1>6, <1>7, <1>8, AllStamped DEF OfTopic, OfTime
<1> QED
  BY <1>9, <1>10, <1>11, Zenon DEF u, S, a, b, c, d, m

\* Of the log on a topic at a time, what a replay can find.
Findable(r, topic, ts) ==
  IF r.alike \/ topic = "/equity" THEN Stamped(Exported(r), topic, ts) ELSE <<>>

\* At a row's time that is what the replay has of the row, at no other time anything.
LEMMA LogIsByRow ==
  ASSUME NEW r, IsResult(r), NEW topic \in Topics
  PROVE  /\ \A i \in DOMAIN r.rows :
              Findable(r, topic, r.rows[i].ts) = Stamped(OfRow(r, i), topic, r.rows[i].ts)
         /\ \A ts : ts \notin Times(r.rows) => Findable(r, topic, ts) = <<>>
<1> DEFINE S == Messages(r)
           a == EquityPart(r)
           b == PortfolioPart(r)
           c == BarMessages(r.bars)
           d == FillMessages(Timed(r.fills))
           u == Exported(r)
<1>1. JoinsFour(u, a, b, c, d)
  BY Zenon DEF Exported, EquityPart, PortfolioPart, JoinsFour
<1>2. /\ a \in Seq(S) /\ OfTopic(a, "/equity")
      /\ b \in Seq(S) /\ OfTopic(b, "/portfolio")
      /\ c \in Seq(S) /\ OfTopic(c, "/bars")
      /\ d \in Seq(S) /\ OfTopic(d, "/fills")
  BY FrameTypes, TimedFills, EquityAsMessages, PortfolioAsMessages, BarsAsMessages, FillsAsMessages
<1>3. ASSUME NEW i \in DOMAIN r.rows
      PROVE  /\ Stamped(OfRow(r, i), "/bars", r.rows[i].ts) =
                  BarMessages(At(Keyed(r, r.bars), r.rows[i].ts))
             /\ Stamped(OfRow(r, i), "/equity", r.rows[i].ts) = <<EquityMessage(r.rows, i)>>
             /\ Stamped(OfRow(r, i), "/portfolio", r.rows[i].ts) =
                  Held(r.rows[i].ts, r.rows[i].equity, At(Keyed(r, r.positions), r.rows[i].ts))
             /\ Stamped(OfRow(r, i), "/fills", r.rows[i].ts) =
                  FillMessages(At(Keyed(r, r.fills), r.rows[i].ts))
  BY RowAsMessages, Zenon
<1>4. ASSUME NEW i \in DOMAIN r.rows
      PROVE  /\ Stamped(a, "/equity", r.rows[i].ts) = Stamped(OfRow(r, i), "/equity", r.rows[i].ts)
             /\ r.alike =>
                  /\ Stamped(b, "/portfolio", r.rows[i].ts) =
                       Stamped(OfRow(r, i), "/portfolio", r.rows[i].ts)
                  /\ Stamped(c, "/bars", r.rows[i].ts) = Stamped(OfRow(r, i), "/bars", r.rows[i].ts)
                  /\ Stamped(d, "/fills", r.rows[i].ts) = Stamped(OfRow(r, i), "/fills", r.rows[i].ts)
  <2>1. Stamped(a, "/equity", r.rows[i].ts) = <<EquityMessage(r.rows, i)>>
    BY EquityAsMessages, Zenon
  <2>2. CASE r.alike
    <3>1. /\ Keyed(r, r.bars) = r.bars /\ Keyed(r, r.positions) = r.positions
          /\ Keyed(r, r.fills) = r.fills
      BY <2>2, KeyedFrames
    <3>2. Stamped(b, "/portfolio", r.rows[i].ts) =
            Held(r.rows[i].ts, r.rows[i].equity, At(r.positions, r.rows[i].ts))
      BY <2>2, PortfolioAsMessages, Zenon
    <3>3. /\ Stamped(c, "/bars", r.rows[i].ts) = BarMessages(At(r.bars, r.rows[i].ts))
          /\ Stamped(d, "/fills", r.rows[i].ts) = FillMessages(At(r.fills, r.rows[i].ts))
      BY RestOfTheLog, Zenon
    <3> QED
      BY <1>3, <2>1, <3>1, <3>2, <3>3, Zenon
  <2> QED
    BY <1>3, <2>1, <2>2, Zenon
<1>5. ASSUME NEW i \in DOMAIN r.rows, ~ r.alike
      PROVE  /\ Stamped(OfRow(r, i), "/bars", r.rows[i].ts) = <<>>
             /\ Stamped(OfRow(r, i), "/portfolio", r.rows[i].ts) = <<>>
             /\ Stamped(OfRow(r, i), "/fills", r.rows[i].ts) = <<>>
  <2>1. At(<<>>, r.rows[i].ts) = <<>>
    <3>1. DOMAIN <<>> = {} /\ <<>> \in Seq(BarRow)
      OBVIOUS
    <3> QED
      BY <3>1, ThoseAtNoPlace DEF At
  <2>2. BarMessages(<<>>) = <<>> /\ FillMessages(<<>>) = <<>>
    BY DEF BarMessages, FillMessages
  <2>3. Held(r.rows[i].ts, r.rows[i].equity, <<>>) = <<>>
    BY Zenon DEF Held
  <2>4. /\ Keyed(r, r.bars) = <<>> /\ Keyed(r, r.positions) = <<>> /\ Keyed(r, r.fills) = <<>>
    BY <1>5, KeyedFrames
  <2> QED
    BY <1>3, <2>1, <2>2, <2>3, <2>4, Zenon
<1>6. \A ts : ts \notin Times(r.rows) =>
        /\ Stamped(a, "/equity", ts) = <<>> /\ Stamped(b, "/portfolio", ts) = <<>>
        /\ Stamped(c, "/bars", ts) = <<>> /\ Stamped(d, "/fills", ts) = <<>>
  BY EquityAsMessages, PortfolioAsMessages, RestOfTheLog, Zenon
<1> HIDE DEF S, a, b, c, d, u
<1>7. \A ts : /\ topic = "/equity" => Stamped(u, topic, ts) = Stamped(a, topic, ts)
              /\ topic = "/portfolio" => Stamped(u, topic, ts) = Stamped(b, topic, ts)
              /\ topic = "/bars" => Stamped(u, topic, ts) = Stamped(c, topic, ts)
              /\ topic = "/fills" => Stamped(u, topic, ts) = Stamped(d, topic, ts)
  <2>1. OnFour(a, b, c, d, "/equity", "/portfolio", "/bars", "/fills")
    BY <1>2 DEF OnFour
  <2>2. \A ts : FourApart(u, a, b, c, d, "/equity", "/portfolio", "/bars", "/fills", topic, ts)
    BY <1>1, <1>2, <2>1, StampedOfFour, Zenon
  <2> QED
    BY <2>2, Zenon DEF FourApart
<1>8. topic = "/equity" \/ topic = "/portfolio" \/ topic = "/bars" \/ topic = "/fills"
  BY DEF Topics
<1>9. ASSUME NEW i \in DOMAIN r.rows
      PROVE  Findable(r, topic, r.rows[i].ts) = Stamped(OfRow(r, i), topic, r.rows[i].ts)
  <2>1. CASE r.alike \/ topic = "/equity"
    <3>1. Findable(r, topic, r.rows[i].ts) = Stamped(u, topic, r.rows[i].ts)
      BY <2>1, Zenon DEF Findable, u
    <3> QED
      BY <1>4, <1>7, <1>8, <2>1, <3>1, Zenon
  <2>2. CASE ~ (r.alike \/ topic = "/equity")
    <3>1. Findable(r, topic, r.rows[i].ts) = <<>>
      BY <2>2, Zenon DEF Findable
    <3> QED
      BY <1>5, <1>8, <2>2, <3>1, Zenon
  <2> QED
    BY <2>1, <2>2
<1>10. ASSUME NEW ts, ts \notin Times(r.rows)
       PROVE  Findable(r, topic, ts) = <<>>
  <2>1. Stamped(u, topic, ts) = <<>>
    BY <1>6, <1>7, <1>8, <1>10, Zenon
  <2> QED
    BY <2>1, Zenon DEF Findable, u
<1> QED
  BY <1>9, <1>10, Zenon

\* Of n parts only the j-th has messages on a topic at a time, w, or none has.
OnlyOf(parts, n, topic, ts, j, w) ==
  /\ j \in 0 .. n /\ (j = 0 => w = <<>>)
  /\ \A i \in 1 .. n : Stamped(parts[i], topic, ts) = IF i = j THEN w ELSE <<>>

LEMMA StampedOfJoin ==
  ASSUME NEW S, NEW n \in Nat, NEW parts \in Seq(Seq(S)), Len(parts) = n, NEW f,
         IsJoin(f, parts, S, n), NEW topic, NEW ts, NEW j, NEW w \in Seq(S),
         OnlyOf(parts, n, topic, ts, j, w)
  PROVE  Stamped(f[n], topic, ts) = w
<1> DEFINE Good == {k \in 0 .. n : Stamped(f[k], topic, ts) = IF j <= k THEN w ELSE <<>>}
<1>1. f \in [0 .. n -> Seq(S)] /\ \A i \in 1 .. n : parts[i] \in Seq(S)
  BY ElementOfSeq DEF IsJoin
<1>0. /\ j \in 0 .. n /\ (j = 0 => w = <<>>)
      /\ \A i \in 1 .. n : Stamped(parts[i], topic, ts) = IF i = j THEN w ELSE <<>>
  BY Zenon DEF OnlyOf
<1>2. 0 \in Good
  <2>1. f[0] = <<>> /\ <<>> \in Seq(S) /\ DOMAIN <<>> = {}
    BY DEF IsJoin
  <2>2. Stamped(<<>>, topic, ts) = <<>>
    BY <2>1, NothingStamped
  <2> QED
    BY <1>0, <2>1, <2>2
<1>3. ASSUME NEW k \in 1 .. n, k - 1 \in Good
      PROVE  k \in Good
  <2>1. k - 1 \in 0 .. n /\ k \in 0 .. n
    OBVIOUS
  <2>2. f[k - 1] \in Seq(S) /\ parts[k] \in Seq(S)
    BY <1>1, <2>1
  <2>3. StampedApart(f[k - 1], parts[k], topic, ts)
    BY <2>2, StampedOfConcat
  <2>4. f[k] = f[k - 1] \o parts[k]
    BY Zenon DEF IsJoin
  <2> DEFINE x == Stamped(f[k - 1], topic, ts)
             y == Stamped(parts[k], topic, ts)
  <2>5. Stamped(f[k], topic, ts) = x \o y
    BY <2>3, <2>4, Zenon DEF StampedApart
  <2>6. x = (IF j <= k - 1 THEN w ELSE <<>>) /\ y = (IF k = j THEN w ELSE <<>>)
    BY <1>0, <1>3
  <2>7. Unjoined(w) /\ Unjoined(<<>>)
    <3>1. <<>> \in Seq(S) /\ \A q \in Seq(S) : Unjoined(q)
      BY NothingJoined
    <3> QED
      BY <3>1, Zenon
  <2> HIDE DEF x, y
  <2>8. CASE j <= k - 1
    <3>1. x = w /\ y = <<>> /\ j <= k
      BY <1>0, <2>6, <2>8
    <3>2. Stamped(f[k], topic, ts) = w
      BY <2>5, <2>7, <3>1, Zenon DEF Unjoined
    <3> QED
      BY <3>1, <3>2
  <2>9. CASE j = k
    <3>1. x = <<>> /\ y = w /\ j <= k
      BY <1>0, <2>6, <2>9
    <3>2. Stamped(f[k], topic, ts) = w
      BY <2>5, <2>7, <3>1, Zenon DEF Unjoined
    <3> QED
      BY <3>1, <3>2
  <2>10. CASE j > k
    <3>1. x = <<>> /\ y = <<>> /\ ~ j <= k
      BY <1>0, <2>6, <2>10
    <3>2. Stamped(f[k], topic, ts) = <<>>
      BY <2>5, <2>7, <3>1, Zenon DEF Unjoined
    <3> QED
      BY <3>1, <3>2
  <2> QED
    BY <1>0, <2>8, <2>9, <2>10
<1>4. n \in Good
  <2> HIDE DEF Good
  <2>1. \A k \in 0 .. n : k \in Good
    BY <1>2, <1>3, UpToN
  <2> QED
    BY <2>1
<1> QED
  BY <1>0, <1>4

\* Parts of later and later times join to a sequence in time order.
LEMMA JoinIsInTimeOrder ==
  ASSUME NEW S, NEW n \in Nat, NEW parts \in Seq(Seq(S)), Len(parts) = n, NEW f,
         IsJoin(f, parts, S, n), NEW at \in [1 .. n -> Int],
         \A i, j \in 1 .. n : i < j => at[i] < at[j],
         \A i \in 1 .. n : OfTime(parts[i], at[i])
  PROVE  InTimeOrder(f[n])
<1> DEFINE Timely(k) == \A m \in DOMAIN f[k] : \E i \in 1 .. k : f[k][m].ts = at[i]
           Good == {k \in 0 .. n : InTimeOrder(f[k]) /\ Timely(k)}
<1>1. f \in [0 .. n -> Seq(S)] /\ \A i \in 1 .. n : parts[i] \in Seq(S)
  BY ElementOfSeq DEF IsJoin
<1>2. 0 \in Good
  <2>1. f[0] = <<>> /\ DOMAIN <<>> = {}
    BY DEF IsJoin
  <2> QED
    BY <2>1 DEF InTimeOrder
<1>3. ASSUME NEW k \in 1 .. n, k - 1 \in Good
      PROVE  k \in Good
  <2>1. k - 1 \in 0 .. n /\ k \in 0 .. n
    OBVIOUS
  <2> DEFINE s == f[k - 1]
             t == parts[k]
             u == f[k]
  <2>2. s \in Seq(S) /\ t \in Seq(S) /\ u \in Seq(S)
    BY <1>1, <2>1
  <2>3. /\ \A m \in DOMAIN s : s[m].ts \in Int
        /\ \A a, b \in DOMAIN s : a < b => s[a].ts <= s[b].ts
        /\ \A m \in DOMAIN s : \E i \in 1 .. k - 1 : s[m].ts = at[i]
    BY <1>3 DEF InTimeOrder
  <2>4. u = s \o t
    BY Zenon DEF IsJoin
  <2>5. \A m \in DOMAIN t : t[m].ts = at[k]
    BY DEF OfTime
  <2> HIDE DEF s, t, u
  <2>6. /\ Len(s) \in Nat /\ DOMAIN s = 1 .. Len(s)
        /\ Len(t) \in Nat /\ DOMAIN t = 1 .. Len(t)
        /\ DOMAIN u = 1 .. Len(u)
    BY <2>2, LenProperties
  <2>7. /\ Len(u) = Len(s) + Len(t)
        /\ \A i \in 1 .. Len(s) + Len(t) : u[i] = IF i <= Len(s) THEN s[i] ELSE t[i - Len(s)]
    BY <2>2, <2>4, ConcatProperties
  <2>8. \A m \in DOMAIN u : /\ m <= Len(s) => m \in DOMAIN s /\ u[m] = s[m]
                            /\ ~ m <= Len(s) => u[m].ts = at[k]
    <3> SUFFICES ASSUME NEW m \in DOMAIN u
                 PROVE  /\ m <= Len(s) => m \in DOMAIN s /\ u[m] = s[m]
                        /\ ~ m <= Len(s) => u[m].ts = at[k]
      OBVIOUS
    <3>1. m \in 1 .. Len(s) + Len(t)
      BY <2>6, <2>7
    <3>2. CASE m <= Len(s)
      BY <2>6, <2>7, <3>1, <3>2
    <3>3. CASE ~ m <= Len(s)
      <4>1. m - Len(s) \in DOMAIN t /\ u[m] = t[m - Len(s)]
        BY <2>6, <2>7, <3>1, <3>3
      <4> QED
        BY <2>5, <3>3, <4>1
    <3> QED
      BY <3>2, <3>3
  <2>9. \A m \in DOMAIN s : s[m].ts < at[k]
    <3>1. \A i \in 1 .. k - 1 : at[i] < at[k]
      OBVIOUS
    <3> QED
      BY <2>3, <3>1
  <2>10. at[k] \in Int
    OBVIOUS
  <2>11. ASSUME NEW m \in DOMAIN u
         PROVE  u[m].ts \in Int /\ \E i \in 1 .. k : u[m].ts = at[i]
    <3>1. k \in 1 .. k /\ 1 .. k - 1 \subseteq 1 .. k
      OBVIOUS
    <3>2. CASE m <= Len(s)
      BY <2>3, <2>8, <3>1, <3>2
    <3>3. CASE ~ m <= Len(s)
      BY <2>8, <2>10, <3>1, <3>3
    <3> QED
      BY <3>2, <3>3
  <2>12. ASSUME NEW a \in DOMAIN u, NEW b \in DOMAIN u, a < b
         PROVE  u[a].ts <= u[b].ts
    <3>1. CASE b <= Len(s)
      <4>1. a <= Len(s)
        BY <2>6, <2>12, <3>1
      <4>2. a \in DOMAIN s /\ b \in DOMAIN s /\ u[a] = s[a] /\ u[b] = s[b]
        BY <2>8, <3>1, <4>1
      <4> QED
        BY <2>3, <2>12, <4>2
    <3>2. CASE ~ b <= Len(s)
      <4>1. u[b].ts = at[k]
        BY <2>8, <3>2
      <4>2. CASE a <= Len(s)
        <5>1. a \in DOMAIN s /\ u[a] = s[a]
          BY <2>8, <4>2
        <5>2. s[a].ts \in Int /\ s[a].ts < at[k]
          BY <2>3, <2>9, <5>1
        <5> QED
          BY <2>10, <4>1, <5>1, <5>2
      <4>3. CASE ~ a <= Len(s)
        <5>1. u[a].ts = at[k]
          BY <2>8, <4>3
        <5> QED
          BY <2>10, <4>1, <5>1
      <4> QED
        BY <4>2, <4>3
    <3> QED
      BY <3>1, <3>2
  <2>13. InTimeOrder(u)
    BY <2>11, <2>12 DEF InTimeOrder
  <2>14. Timely(k)
    BY <2>11 DEF u
  <2> QED
    BY <2>1, <2>13, <2>14 DEF u
<1>4. n \in Good
  <2> HIDE DEF Good
  <2>1. \A k \in 0 .. n : k \in Good
    BY <1>2, <1>3, UpToN
  <2> QED
    BY <2>1
<1> QED
  BY <1>4

\* A pass of the replay goes forward in time, and has of each topic at each time what can
\* be found of the exported log.
PassIsTheExport(r) ==
  /\ BarByBar(r) \in Seq(Messages(r))
  /\ InTimeOrder(BarByBar(r))
  /\ \A topic \in Topics : \A ts : Stamped(BarByBar(r), topic, ts) = Findable(r, topic, ts)

LEMMA PassMatchesTheLog ==
  ASSUME NEW r, IsResult(r)
  PROVE  PassIsTheExport(r)
<1> DEFINE n == Len(r.rows)
           S == Messages(r)
           parts == [i \in DOMAIN r.rows |-> OfRow(r, i)]
           at == [i \in 1 .. n |-> r.rows[i].ts]
<1>1. /\ DOMAIN r.rows = 1 .. n /\ n \in Nat
      /\ \A i \in DOMAIN r.rows : r.rows[i].ts \in Int
      /\ \A i, j \in DOMAIN r.rows : r.rows[i].ts = r.rows[j].ts => i = j
  BY FrameTypes
<1>2. \A i \in DOMAIN r.rows : OfRow(r, i) \in Seq(S) /\ OfTime(OfRow(r, i), r.rows[i].ts)
  BY RowAsMessages, Zenon
<1>3. BarByBar(r) = FlattenSeq(parts)
  BY Zenon DEF BarByBar
<1>4. DOMAIN parts = 1 .. n /\ \A i \in 1 .. n : parts[i] = OfRow(r, i)
  BY <1>1, Zenon
<1>5. parts \in Seq(Seq(S)) /\ Len(parts) = n
  <2>1. parts \in [1 .. n -> Seq(S)]
    BY <1>1, <1>2
  <2> HIDE DEF parts, n, S
  <2> QED
    BY <1>1, <2>1
<1>6. at \in [1 .. n -> Int] /\ \A i, j \in 1 .. n : i < j => at[i] < at[j]
  <2>1. \A i, j \in DOMAIN r.rows : i < j => r.rows[i].ts < r.rows[j].ts
    BY Zenon DEF IsResult
  <2> QED
    BY <1>1, <2>1
<1>7. \A i \in 1 .. n : OfTime(parts[i], at[i])
  BY <1>1, <1>2
<1>8. \A i \in 1 .. n : at[i] = r.rows[i].ts
  OBVIOUS
<1>9. \A i \in 1 .. n : \A ts : ts # at[i] => \A topic : Stamped(parts[i], topic, ts) = <<>>
  <2> SUFFICES ASSUME NEW i \in 1 .. n, NEW ts, ts # at[i], NEW topic
               PROVE  Stamped(parts[i], topic, ts) = <<>>
    OBVIOUS
  <2>1. parts[i] \in Seq(S) /\ \A k \in DOMAIN parts[i] : parts[i][k].ts # ts
    <3> HIDE DEF at, S
    <3>1. parts[i] = OfRow(r, i) /\ OfRow(r, i) \in Seq(S)
      BY <1>1, <1>2, <1>4
    <3>2. OfTime(parts[i], at[i])
      BY <1>7
    <3> HIDE DEF parts
    <3> QED
      BY <3>1, <3>2 DEF OfTime
  <2> HIDE DEF parts, at, S
  <2> QED
    BY <2>1, NothingStamped
<1> HIDE DEF parts, at, n, S
<1>10. PICK f : IsJoin(f, parts, S, n) /\ FlattenSeq(parts) = f[n]
  BY <1>1, <1>5, FlattenStepByStep
<1>11. f[n] \in Seq(S) /\ InTimeOrder(f[n])
  <2>1. f[n] \in Seq(S)
    BY <1>1, <1>10 DEF IsJoin
  <2> QED
    BY <1>1, <1>5, <1>6, <1>7, <1>10, <2>1, JoinIsInTimeOrder
<1>12. ASSUME NEW topic \in Topics, NEW ts
       PROVE  Stamped(f[n], topic, ts) = Findable(r, topic, ts)
  <2>1. CASE \E j \in 1 .. n : at[j] = ts
    <3>1. PICK j \in 1 .. n : at[j] = ts
      BY <2>1
    <3> DEFINE w == Stamped(parts[j], topic, ts)
    <3>2. \A i \in 1 .. n : Stamped(parts[i], topic, ts) = IF i = j THEN w ELSE <<>>
      <4>1. \A i \in 1 .. n : i # j => ts # at[i]
        BY <1>1, <1>8, <3>1
      <4> QED
        BY <1>9, <4>1
    <3>3. w \in Seq(S) /\ j \in 0 .. n /\ j # 0
      BY <1>1, <1>5, ElementOfSeq, StampedIsASequence
    <3>4. w = Findable(r, topic, ts)
      <4>1. ts = r.rows[j].ts /\ parts[j] = OfRow(r, j) /\ j \in DOMAIN r.rows
        BY <1>1, <1>4, <1>8, <3>1
      <4> QED
        BY <4>1, LogIsByRow
    <3> HIDE DEF w
    <3>5. Stamped(f[n], topic, ts) = w
      <4>1. OnlyOf(parts, n, topic, ts, j, w)
        BY <3>2, <3>3 DEF OnlyOf
      <4> QED
        BY <1>1, <1>5, <1>10, <3>3, <4>1, StampedOfJoin
    <3> QED
      BY <3>4, <3>5
  <2>2. CASE ~ \E j \in 1 .. n : at[j] = ts
    <3>1. \A i \in 1 .. n : Stamped(parts[i], topic, ts) = IF i = 0 THEN <<>> ELSE <<>>
      BY <1>9, <2>2
    <3>2. 0 \in 0 .. n /\ <<>> \in Seq(S)
      BY <1>1
    <3>3. Stamped(f[n], topic, ts) = <<>>
      <4> DEFINE w == <<>>
      <4>1. OnlyOf(parts, n, topic, ts, 0, w) /\ w \in Seq(S)
        BY <3>1, <3>2 DEF OnlyOf
      <4> HIDE DEF w
      <4>2. Stamped(f[n], topic, ts) = w
        BY <1>1, <1>5, <1>10, <4>1, StampedOfJoin
      <4> QED
        BY <4>2, Zenon DEF w
    <3>4. ts \notin Times(r.rows)
      BY <1>1, <1>8, <2>2 DEF Times
    <3> QED
      BY <3>3, <3>4, LogIsByRow
  <2> QED
    BY <2>1, <2>2
<1> QED
  BY <1>3, <1>10, <1>11, <1>12, Zenon DEF PassIsTheExport, S

\* The state of the bridge: what is sent of a pass and what is still to be.
BridgeInv ==
  /\ result \in Results
  /\ stage = "opening" => sent = <<>> /\ agenda = <<>>
  /\ stage \in {"replaying", "ended"} =>
       sent \in Seq(Messages(result)) /\ agenda \in Seq(Messages(result))
         /\ sent \o agenda = BarByBar(result)

\* The head of the second sequence moves to the end of the first.
Moved(s, a) == Append(s, Head(a)) \o Tail(a) = s \o a

LEMMA HeadMoves ==
  ASSUME NEW S, NEW s \in Seq(S), NEW a \in Seq(S), a # <<>>
  PROVE  Moved(s, a) /\ Append(s, Head(a)) \in Seq(S) /\ Tail(a) \in Seq(S)
<1>1. Len(a) \in Nat /\ Len(a) # 0 /\ Head(a) = a[1] /\ a[1] \in S
  BY EmptySeq, HeadTailProperties, LenProperties, ElementOfSeq
<1>2. /\ Tail(a) \in Seq(S) /\ Len(Tail(a)) = Len(a) - 1
      /\ \A i \in 1 .. Len(Tail(a)) : Tail(a)[i] = a[i + 1]
  BY HeadTailProperties
<1> DEFINE x == Append(s, Head(a))
           y == Tail(a)
<1>3. /\ x \in Seq(S) /\ Len(x) = Len(s) + 1 /\ x[Len(s) + 1] = a[1]
      /\ \A i \in 1 .. Len(s) : x[i] = s[i]
  BY <1>1, AppendProperties
<1>4. /\ s \o a \in Seq(S) /\ Len(s \o a) = Len(s) + Len(a)
      /\ \A i \in 1 .. Len(s) + Len(a) : (s \o a)[i] = IF i <= Len(s) THEN s[i] ELSE a[i - Len(s)]
  BY ConcatProperties
<1> DEFINE z == s \o a
           v == x \o y
<1> HIDE DEF x, y
<1>5. /\ v \in Seq(S) /\ Len(v) = Len(x) + Len(y)
      /\ \A i \in 1 .. Len(x) + Len(y) : v[i] = IF i <= Len(x) THEN x[i] ELSE y[i - Len(x)]
  BY <1>2, <1>3, ConcatProperties DEF y
<1>6. Len(s) \in Nat
  BY LenProperties
<1> HIDE DEF v, z
<1>7. Len(v) = Len(z)
  BY <1>1, <1>2, <1>3, <1>4, <1>5, <1>6 DEF y, z
<1>8. ASSUME NEW i \in 1 .. Len(z)
      PROVE  v[i] = z[i]
  <2>1. /\ i \in 1 .. Len(s) + Len(a) /\ i \in 1 .. Len(x) + Len(y)
        /\ Len(x) = Len(s) + 1 /\ Len(y) = Len(a) - 1
    BY <1>1, <1>2, <1>3, <1>4, <1>6 DEF y, z
  <2>2. z[i] = IF i <= Len(s) THEN s[i] ELSE a[i - Len(s)]
    BY <1>4, <2>1, Zenon DEF z
  <2>3. v[i] = IF i <= Len(x) THEN x[i] ELSE y[i - Len(x)]
    BY <1>5, <2>1, Zenon
  <2>4. CASE i <= Len(s)
    BY <1>3, <1>6, <2>1, <2>2, <2>3, <2>4
  <2>5. CASE i = Len(s) + 1
    BY <1>3, <1>6, <2>1, <2>2, <2>3, <2>5
  <2>6. CASE i > Len(s) + 1
    <3>1. i - Len(x) \in 1 .. Len(y)
      BY <1>1, <1>6, <2>1, <2>6
    <3>2. y[i - Len(x)] = a[i - Len(x) + 1]
      BY <1>2, <3>1 DEF y
    <3>3. i - Len(x) + 1 = i - Len(s) /\ ~ i <= Len(x) /\ ~ i <= Len(s)
      BY <1>6, <2>1, <2>6
    <3> QED
      BY <2>2, <2>3, <3>2, <3>3
  <2> QED
    BY <1>6, <2>1, <2>4, <2>5, <2>6
<1>9. v = z
  BY <1>4, <1>5, <1>7, <1>8, SeqEqual DEF z
<1> QED
  BY <1>2, <1>3, <1>9, Zenon DEF Moved, v, z, x, y

LEMMA BridgeInvHolds == BridgeSpec => []BridgeInv
<1>1. BridgeInit => BridgeInv
  BY DEF BridgeInit, BridgeInv
<1>2. BridgeInv /\ [BridgeNext]_bridgeVars => BridgeInv'
  <2> SUFFICES ASSUME BridgeInv, [BridgeNext]_bridgeVars
               PROVE  BridgeInv'
    OBVIOUS
  <2>1. ASSUME UNCHANGED <<result, stage, sent, agenda>>
        PROVE  BridgeInv'
    <3>1. result' = result /\ stage' = stage /\ sent' = sent /\ agenda' = agenda
      BY <2>1
    <3> QED
      BY <3>1, Zenon DEF BridgeInv
  <2>2. CASE Register
    BY <2>1, <2>2 DEF Register
  <2>3. CASE Advertised
    BY <2>1, <2>3 DEF Advertised
  <2>4. PassIsTheExport(result) /\ result \in Results
    BY BridgeAssumption, PassMatchesTheLog DEF BridgeInv, BridgeAssumption
  <2>5. /\ BarByBar(result) \in Seq(Messages(result)) /\ <<>> \in Seq(Messages(result))
        /\ Unjoined(BarByBar(result))
    BY <2>4, NothingJoined DEF PassIsTheExport
  <2>6. CASE StartReplay
    <3>1. stage = "opening" /\ sent' = sent /\ result' = result /\ sent = <<>>
      BY <2>6 DEF StartReplay, BridgeInv
    <3>2. CASE stage' = "raised"
      BY <2>4, <3>1, <3>2 DEF BridgeInv
    <3>3. CASE stage' # "raised"
      <4>1. stage' = "replaying" /\ agenda' = BarByBar(result)
        BY <2>6, <3>3 DEF StartReplay
      <4>2. sent' \o agenda' = BarByBar(result')
        BY <2>5, <3>1, <4>1, Zenon DEF Unjoined
      <4> QED
        BY <2>4, <2>5, <3>1, <4>1, <4>2, Zenon DEF BridgeInv
    <3> QED
      BY <3>2, <3>3
  <2>7. CASE Publish
    <3>1. /\ stage = "replaying" /\ agenda # <<>> /\ stage' = stage /\ result' = result
          /\ agenda' = Tail(agenda) /\ sent' = Append(sent, Head(agenda))
      BY <2>7 DEF Publish
    <3>2. /\ sent \in Seq(Messages(result)) /\ agenda \in Seq(Messages(result))
          /\ sent \o agenda = BarByBar(result)
      BY <3>1, Zenon DEF BridgeInv
    <3>3. /\ Moved(sent, agenda) /\ Append(sent, Head(agenda)) \in Seq(Messages(result))
          /\ Tail(agenda) \in Seq(Messages(result))
      BY <3>1, <3>2, HeadMoves, Zenon
    <3>4. sent' \o agenda' = BarByBar(result')
      BY <3>1, <3>2, <3>3, Zenon DEF Moved
    <3> QED
      BY <2>4, <3>1, <3>3, <3>4, Zenon DEF BridgeInv
  <2>8. CASE EndOfPass
    <3>1. stage = "replaying" /\ agenda = <<>> /\ result' = result
      BY <2>8 DEF EndOfPass
    <3>2. CASE Again
      <4>1. stage' = stage /\ agenda' = BarByBar(result) /\ sent' = <<>>
        BY <2>8, <3>2 DEF EndOfPass
      <4>2. sent' \o agenda' = BarByBar(result')
        BY <2>5, <3>1, <4>1, Zenon DEF Unjoined
      <4> QED
        BY <2>4, <2>5, <3>1, <4>1, <4>2, Zenon DEF BridgeInv
    <3>3. CASE ~ Again
      <4>1. stage' = "ended" /\ agenda' = agenda /\ sent' = sent
        BY <2>8, <3>3 DEF EndOfPass
      <4>2. /\ sent \in Seq(Messages(result)) /\ agenda \in Seq(Messages(result))
            /\ sent \o agenda = BarByBar(result)
        BY <3>1, Zenon DEF BridgeInv
      <4> QED
        BY <2>4, <3>1, <4>1, <4>2, Zenon DEF BridgeInv
    <3> QED
      BY <3>2, <3>3
  <2>9. ASSUME NEW v \in Viewers, Connect(v) \/ Subscribe(v) \/ Leave(v)
        PROVE  BridgeInv'
    BY <2>1, <2>9 DEF Connect, Subscribe, Leave, server
  <2>10. CASE UNCHANGED bridgeVars
    BY <2>1, <2>10 DEF bridgeVars
  <2> QED
    BY <2>2, <2>3, <2>6, <2>7, <2>8, <2>9, <2>10 DEF BridgeNext, Serve
<1> QED
  BY <1>1, <1>2, PTL DEF BridgeSpec

\* When a pass is done what was sent goes forward in time.  Of a result whose times are all
\* of one kind it has at every time on every topic the very messages of the exported log, in
\* its order; of one whose curve alone has lost its zone, those of /equity and no others.
THEOREM ReplayMatchesExport == BridgeSpec => []ReplayFollowsTheExport
<1>1. BridgeInv => ReplayFollowsTheExport
  <2> SUFFICES ASSUME BridgeInv, stage \in {"replaying", "ended"}, agenda = <<>>
               PROVE  /\ \A j, k \in DOMAIN sent : j < k => sent[j].ts <= sent[k].ts
                      /\ \A topic \in Topics, ts \in Times(sent) \cup Times(Exported(result)) :
                           Stamped(sent, topic, ts) =
                             IF result.alike \/ topic = "/equity"
                             THEN Stamped(Exported(result), topic, ts) ELSE <<>>
    BY DEF ReplayFollowsTheExport
  <2>1. /\ sent \in Seq(Messages(result)) /\ sent \o agenda = BarByBar(result)
        /\ result \in Results
    BY Zenon DEF BridgeInv
  <2>2. PassIsTheExport(result)
    BY <2>1, BridgeAssumption, PassMatchesTheLog DEF BridgeAssumption
  <2>3. sent = BarByBar(result)
    <3>1. Unjoined(sent)
      BY <2>1, NothingJoined
    <3> QED
      BY <2>1, <3>1, Zenon DEF Unjoined
  <2>4. InTimeOrder(sent)
    BY <2>2, <2>3, Zenon DEF PassIsTheExport
  <2>5. \A topic \in Topics : \A ts : Stamped(sent, topic, ts) = Findable(result, topic, ts)
    BY <2>2, <2>3, Zenon DEF PassIsTheExport
  <2> QED
    BY <2>4, <2>5 DEF InTimeOrder, Findable
<1> QED
  BY <1>1, BridgeInvHolds, PTL

=============================================================================
