------------------------------- MODULE Sweep -------------------------------
(***************************************************************************)
(* A sweep of runs over the three runners: in the calling process, over a  *)
(* pool of local processes whose futures are read as they complete, or as  *)
(* Ray tasks that are retried when their worker dies.  execute_spec is the *)
(* unit of work of all three, in steps that interleave between workers.    *)
(***************************************************************************)
EXTENDS RunSpecs

CONSTANTS
  Sharpe(_),              \* the metric of a spec's run, NaN for one that stays flat
  NaN,
  SpecLists,              \* the lists of specs a caller may pass
  Workers,
  MaxDeaths               \* bound on the workers that die

ASSUME SweepAssumption ==
  /\ \A list \in SpecLists :
       /\ list \in Seq(ToSet(list))
       /\ \A spec \in ToSet(list) : Builds(spec) => Sharpe(spec) \in Int \cup {NaN}
  /\ NaN \notin Int
  /\ MaxDeaths \in Nat

VARIABLES
  runner, specs, artifacts,   \* the backend, list(specs), whether artifacts_dir is given
  phase,                      \* of the caller
  futures,                    \* one per submitted spec
  workers,                    \* the run each is at, and how far
  files,                      \* [path -> the key of the run whose frame it holds, or Torn]
  collected,                  \* the futures whose results the caller has, in order
  deaths

vars == <<runner, specs, artifacts, phase, futures, workers, files, collected, deaths>>

Idle == [step |-> "idle"]
Queued == [state |-> "queued"]
Running == [state |-> "running"]
Raised == [state |-> "raised"]
Done(outcome) == [state |-> "done", outcome |-> outcome]

Pool == runner = "multiprocess"
Torn == <<"torn">>
TheCaller == CHOOSE w \in Workers : TRUE

Init ==
  /\ runner \in {"simple", "multiprocess", "ray"}
  /\ specs \in SpecLists
  /\ artifacts \in BOOLEAN
  /\ IF runner = "simple"
     THEN phase = "collect" /\ futures = [i \in DOMAIN specs |-> Queued]
     ELSE phase = "submit" /\ futures = <<>>
  /\ workers = [w \in Workers |-> Idle]
  /\ files = <<>>
  /\ collected = <<>>
  /\ deaths = 0

(***************************************************************************)
(* execute_spec, on a worker                                               *)
(***************************************************************************)

Success(spec, path) ==
  [key |-> Key(spec), spec |-> spec, ok |-> TRUE, stats |-> Sharpe(spec), artifact |-> path]
NoArtifact == <<"none">>

\* Mutant of Failure: the exception is not caught.
FailureRaises(spec) == Raised

\* What the worker makes of an exception.
Failure(spec) == Done([key |-> Key(spec), spec |-> spec, ok |-> FALSE])

\* Mutant of ArtifactOf: named after the family, not the content.
ArtifactOfFamily(spec) == <<spec.strategy>>

ArtifactOf(spec) == Key(spec)

SpecOf(w) == specs[workers[w].task]
Writers(path) == {w \in Workers : workers[w].step = "close" /\ ArtifactOf(SpecOf(w)) = path}
Put(path, content) == files' = [p \in DOMAIN files \cup {path} |-> IF p = path THEN content ELSE files[p]]

\* The next run: of a list comprehension, when the one before is in; of a pool, first in
\* first out; of a cluster, any.
Eligible(i) ==
  /\ futures[i] = Queued
  /\ CASE runner = "simple" -> phase = "collect" /\ i = Len(collected) + 1
       [] runner = "multiprocess" -> \A j \in 1 .. (i - 1) : futures[j] # Queued
       [] runner = "ray" -> TRUE

\* Mutant of MayTake: leaving the pool's block stops its workers and not its queue.
MayTakeBeforeClosing(w, i) == phase # "closing" /\ workers[w] = Idle /\ Eligible(i)

MayTake(w, i) ==
  /\ workers[w] = Idle /\ Eligible(i)
  /\ runner = "simple" => w = TheCaller

\* The key is computed outside the try.
Take(w) ==
  \E i \in DOMAIN futures :
    /\ MayTake(w, i)
    /\ IF HasKey(specs[i])
       THEN /\ futures' = [futures EXCEPT ![i] = Running]
            /\ workers' = [workers EXCEPT ![w] = [step |-> "engine", task |-> i]]
       ELSE futures' = [futures EXCEPT ![i] = Raised] /\ UNCHANGED workers
    /\ UNCHANGED <<runner, specs, artifacts, phase, files, collected, deaths>>

Finishes(w, future) ==
  /\ futures' = [futures EXCEPT ![workers[w].task] = future]
  /\ workers' = [workers EXCEPT ![w] = Idle]
  /\ UNCHANGED <<runner, specs, artifacts, phase, collected, deaths>>

\* spec.build(store).run(...)
RunEngine(w) ==
  /\ workers[w].step = "engine" /\ Builds(SpecOf(w))
  /\ \/ ~ artifacts /\ Finishes(w, Done(Success(SpecOf(w), NoArtifact))) /\ UNCHANGED files
     \/ /\ artifacts
        /\ workers' = [workers EXCEPT ![w].step = "open"]
        /\ UNCHANGED <<runner, specs, artifacts, phase, futures, files, collected, deaths>>

\* write_parquet truncates the file ...
OpenArtifact(w) ==
  /\ workers[w].step = "open"
  /\ workers' = [workers EXCEPT ![w].step = "close"]
  /\ Put(ArtifactOf(SpecOf(w)), Torn)
  /\ UNCHANGED <<runner, specs, artifacts, phase, futures, collected, deaths>>

\* ... and writes it; another writer of the same file may have cut it since.
CloseArtifact(w) ==
  /\ workers[w].step = "close"
  /\ LET path == ArtifactOf(SpecOf(w))
     IN  /\ \/ Put(path, Key(SpecOf(w)))
            \/ Writers(path) # {w} /\ Put(path, Torn)
         /\ Finishes(w, Done(Success(SpecOf(w), path)))

\* A family or parameters nobody registered, a store that does not answer, a full disk.
RunFails(w) == workers[w] # Idle /\ Finishes(w, Failure(SpecOf(w))) /\ UNCHANGED files

\* A worker process is killed.  A pool is broken for good, and with it every future that
\* has no result; a Ray task is put back, unless its retries are spent.
WorkerDies(w) ==
  /\ runner # "simple" /\ deaths < MaxDeaths /\ workers[w] # Idle
  /\ deaths' = deaths + 1
  /\ IF Pool
     THEN /\ futures' = [i \in DOMAIN futures |->
                           IF futures[i] \in {Queued, Running} THEN Raised ELSE futures[i]]
          /\ workers' = [v \in Workers |-> Idle]
     ELSE /\ \E future \in {Queued, Raised} : futures' = [futures EXCEPT ![workers[w].task] = future]
          /\ workers' = [workers EXCEPT ![w] = Idle]
  /\ UNCHANGED <<runner, specs, artifacts, phase, files, collected>>

(***************************************************************************)
(* run, in the caller                                                      *)
(***************************************************************************)

Broken == Pool /\ deaths > 0

\* A broken pool takes no more.
Submit ==
  /\ phase = "submit"
  /\ IF Len(futures) = Len(specs) THEN phase' = "collect" /\ UNCHANGED futures
     ELSE IF Broken THEN phase' = "closing" /\ UNCHANGED futures
     ELSE futures' = Append(futures, Queued) /\ UNCHANGED phase
  /\ UNCHANGED <<runner, specs, artifacts, workers, files, collected, deaths>>

Ready(i) == futures[i] \notin {Queued, Running} /\ i \notin ToSet(collected)

\* future.result() of the next that completed, or the next call of execute_spec: what it
\* raised ends the sweep.
Collect ==
  /\ phase = "collect" /\ runner # "ray"
  /\ \E i \in DOMAIN futures :
       /\ Ready(i)
       /\ IF futures[i] = Raised
          THEN phase' = (IF Pool THEN "closing" ELSE "raised") /\ UNCHANGED collected
          ELSE collected' = Append(collected, i) /\ UNCHANGED phase
  /\ UNCHANGED <<runner, specs, artifacts, futures, workers, files, deaths>>

\* ray.get of the whole list.
RayGet ==
  /\ phase = "collect" /\ runner = "ray" /\ collected = <<>>
  /\ IF \E i \in DOMAIN futures : futures[i] = Raised
     THEN phase' = "raised" /\ UNCHANGED collected
     ELSE /\ \A i \in DOMAIN futures : Ready(i)
          /\ collected' = [i \in DOMAIN futures |-> i]
          /\ UNCHANGED phase
  /\ UNCHANGED <<runner, specs, artifacts, futures, workers, files, deaths>>

\* Leaving the `with` block on an exception first waits for every future of the pool.
Close ==
  /\ phase = "closing"
  /\ \A i \in DOMAIN futures : futures[i] \notin {Queued, Running}
  /\ phase' = "raised"
  /\ UNCHANGED <<runner, specs, artifacts, futures, workers, files, collected, deaths>>

\* Mutant of AllIn: the futures that raised are passed over.
AllInButTheRaised ==
  \A i \in DOMAIN specs : i \in ToSet(collected) \/ futures[i] = Raised

AllIn == Len(collected) = Len(specs)

Return ==
  /\ phase = "collect" /\ AllIn
  /\ phase' = "returned"
  /\ UNCHANGED <<runner, specs, artifacts, futures, workers, files, collected, deaths>>

Caller == Submit \/ Collect \/ RayGet \/ Close \/ Return
Works(w) == Take(w) \/ RunEngine(w) \/ OpenArtifact(w) \/ CloseArtifact(w) \/ RunFails(w)

Next == Caller \/ \E w \in Workers : Works(w) \/ WorkerDies(w)

Spec == Init /\ [][Next]_vars

\* The caller blocks only on its futures and a live worker goes on with its run.
FairSpec == Spec /\ WF_vars(Caller) /\ \A w \in Workers : WF_vars(Works(w))

(***************************************************************************)
(* SweepReport                                                             *)
(***************************************************************************)

outcomes == [k \in DOMAIN collected |-> futures[collected[k]].outcome]

\* An outcome but for where its frame is.
Told(outcome) == [f \in DOMAIN outcome \ {"artifact"} |-> outcome[f]]

\* What the caller of run gets.
told ==
  CASE phase = "returned" -> [state |-> "returned", outcomes |-> [k \in DOMAIN collected |-> Told(outcomes[k])]]
    [] phase = "raised" -> [state |-> "raised"]
    [] OTHER -> [state |-> "running"]

\* Mutant of Beats: a comparison with NaN holds.
BeatsOrNaN(o, best) == NaN \in {o.stats, best.stats} \/ o.stats > best.stats

Beats(o, best) == NaN \notin {o.stats, best.stats} /\ o.stats > best.stats

NoBest == [ok |-> FALSE]
\* max() over the successes: the first stays until another beats it.
Better(best, o) == IF o.ok /\ (best.ok => Beats(o, best)) THEN o ELSE best
Best(report) == FoldLeft(Better, NoBest, report)

-----------------------------------------------------------------------------
\* The futures execute_spec may leave of a spec.
Finished(spec) ==
  {Failure(spec)} \cup {Done(Success(spec, path)) : path \in {NoArtifact, ArtifactOf(spec)}}

\* Types; futures are those of the first specs, and the caller has results of theirs.
TypeOK ==
  /\ runner \in {"simple", "multiprocess", "ray"} /\ specs \in SpecLists /\ artifacts \in BOOLEAN
  /\ phase \in {"submit", "collect", "closing", "returned", "raised"}
  /\ futures \in Seq({Queued, Running, Raised} \cup UNION {Finished(spec) : spec \in ToSet(specs)})
  /\ Len(futures) <= Len(specs)
  /\ workers \in [Workers -> {Idle} \cup [step : {"engine", "open", "close"}, task : DOMAIN futures]]
  /\ \A p \in DOMAIN files : files[p] \in {Torn} \cup {Key(spec) : spec \in ToSet(specs)}
  /\ collected \in Seq(DOMAIN futures)
  /\ deaths \in 0 .. MaxDeaths

\* Whatever the backend and the order its runs complete in, the caller gets one outcome per
\* spec, each its own spec's: test_runner.py compares the backends by key.
Promise == INSTANCE SweepPromise WITH report <- told
ImplementsPromise == Promise!Spec

\* base.py: "isolate any per-run failure - never abort the sweep".  What does abort it is
\* a spec without a key or a worker that died, never a run that failed.
AbortHasACause ==
  phase \in {"closing", "raised"} =>
    deaths > 0 \/ \E i \in DOMAIN specs : ~ HasKey(specs[i])

\* "path to persisted equity frame": a report names only files that hold that very run,
\* whole, however many workers wrote at once, unless a run of the very same content failed.
ArtifactsAreWhole ==
  phase = "returned" =>
    \A o \in ToSet(outcomes) :
      o.ok /\ o.artifact # NoArtifact =>
        \/ files[o.artifact] = o.key
        \/ \E other \in ToSet(outcomes) : ~ other.ok /\ other.key = o.key

\* "The successful outcome with the best metric (None if all failed)", in whatever order
\* they came - but for a first success without a number, which nothing that follows beats.
BestIsBest ==
  phase = "returned" =>
    LET best == Best(outcomes)
        successes == {k \in DOMAIN outcomes : outcomes[k].ok}
        NumberLess(k) == outcomes[k].stats = NaN
    IN  /\ successes = {} => best = NoBest
        /\ \A first \in successes : (\A k \in successes : first <= k) =>
             IF NumberLess(first) THEN best = outcomes[first]
             ELSE \E b \in successes :
                    /\ best = outcomes[b] /\ ~ NumberLess(b)
                    /\ \A k \in successes : NumberLess(k) \/ outcomes[k].stats <= best.stats

\* A sweep ends, in a report or an exception, when workers die and when the pool is left
\* with runs still queued.
SweepEnds == <>(phase \in {"returned", "raised"})

=============================================================================
