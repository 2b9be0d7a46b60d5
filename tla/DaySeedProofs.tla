---------------------------- MODULE DaySeedProofs ----------------------------
(***************************************************************************)
(* Proofs about DaySeeds for every number of days, configs, masters and    *)
(* restarts: an open trade is priced by the published seed of its day, not *)
(* revealed by then, and recovered on it.                                  *)
(*                                                                         *)
(* The invariant follows a context through contextFor: a cached one is the *)
(* fresh one or the published one, one that passed adoptPublishedContext   *)
(* is what ensureGameDay will find or publish, and a ready one is what is  *)
(* published.  Days bumped too late, or whose master is lost, are let off. *)
(***************************************************************************)
EXTENDS DaySeeds, TLAPS

Fresh(d) == [master |-> master, day |-> d, version |-> version[d]]
LetOff(d) == d \in raced \/ Orphaned(d)

\* What a context of day d may hold before its check, after it, and at last.
Possible(s, d) == LetOff(d) \/ s = Fresh(d) \/ s = published[d]
Agreed(s, d) == LetOff(d) \/ s = (IF published[d] = NoSeed THEN Fresh(d) ELSE published[d])
Sure(s, d) == published[d] # NoSeed /\ (LetOff(d) \/ s = published[d])

Placed ==
    /\ cache[NoKey] = NoContext
    /\ \A j \in Jobs :
          /\ job[j].at # "idle" => job[j].key \in Keys
          /\ job[j].at \in {"check", "ensure", "ready"} =>
                job[j].seed.day = job[j].key.day /\ cache[job[j].key].seed # NoSeed

Cached ==
    \A k \in Keys :
        /\ cache[k].seed # NoSeed =>
              cache[k].seed.day = k.day /\ Possible(cache[k].seed, k.day)
        /\ cache[k].ready => cache[k].seed # NoSeed /\ Sure(cache[k].seed, k.day)

Working ==
    \A j \in Jobs :
        /\ job[j].at = "check" => Possible(job[j].seed, job[j].key.day)
        /\ job[j].at = "ensure" => Agreed(job[j].seed, job[j].key.day)
        /\ job[j].at = "ready" => Sure(job[j].seed, job[j].key.day)

Published ==
    \A d \in Days : published[d] # NoSeed =>
        /\ published[d].day = d
        /\ d \in raced \/ (published[d].version = version[d] /\ published[d].master <= master)

Opened ==
    /\ todo \subseteq open
    /\ \A t \in open : t.seed.day = t.key.day /\ Sure(t.seed, t.key.day)

Recovering ==
    job["recover"].at # "idle" =>
        /\ job["recover"].ref \in Seeds
        /\ job["recover"].ref.day = job["recover"].key.day
        /\ Sure(job["recover"].ref, job["recover"].key.day)

-----------------------------------------------------------------------------
(* Types.                                                                  *)

Awaits == {"idle", "version", "check", "ensure", "ready", "reveal"}
JobStates == [at : Awaits, key : Keys \union {NoKey}, seed : Held, ref : Held]

Typed(f) ==
    /\ f \in [Jobs -> JobStates]
    /\ \A j \in Jobs : f[j].at \in {"check", "ensure", "ready"} => f[j].seed \in Seeds

LEMMA JobsTyped ==
    ASSUME TypeOK  PROVE Typed(job)
  BY DEF TypeOK, Typed, JobStates, Awaits

\* One job's new state is typed if it is by itself.
LEMMA OneJob ==
    ASSUME TypeOK, NEW j \in Jobs, NEW to \in JobStates,
           to.at \in {"check", "ensure", "ready"} => to.seed \in Seeds
    PROVE  Typed([job EXCEPT ![j] = to])
  BY JobsTyped DEF Typed

CacheStates == [Keys \union {NoKey} -> [seed : Held, ready : BOOLEAN]]

LEMMA OneContext ==
    ASSUME TypeOK, NEW k \in Keys, NEW s \in Seeds, NEW ready \in BOOLEAN
    PROVE  [cache EXCEPT ![k] = [seed |-> s, ready |-> ready]] \in CacheStates
  BY DEF TypeOK, CacheStates, Held

LEMMA Begins ==
    ASSUME TypeOK, NEW j \in Jobs, NEW key \in Keys, NEW ref \in Held
    PROVE  /\ Typed(Begun(j, key, ref))
           /\ Begun(j, key, ref)[j].at \in {"version", "check", "ready"}
           /\ Begun(j, key, ref)[j].at \in {"check", "ready"} => cache[key].seed \in Seeds
           /\ Begun(j, key, ref)[j].seed = cache[key].seed
           /\ Begun(j, key, ref)[j].key = key /\ Begun(j, key, ref)[j].ref = ref
           /\ \A i \in Jobs \ {j} : Begun(j, key, ref)[i] = job[i]
<1> DEFINE begun == [at |-> IF cache[key].seed = NoSeed THEN "version"
                            ELSE IF cache[key].ready THEN "ready" ELSE "check",
                     key |-> key, seed |-> cache[key].seed, ref |-> ref]
<1>1. cache[key].seed \in Held /\ job \in [Jobs -> JobStates]
  BY DEF TypeOK, JobStates, Awaits
<1>2. begun \in JobStates /\ begun.at \in {"version", "check", "ready"}
  BY <1>1 DEF JobStates, Awaits
<1>3. begun.at \in {"check", "ready"} => cache[key].seed \in Seeds
  BY <1>1 DEF Held
<1>4. Begun(j, key, ref) = [job EXCEPT ![j] = begun]
  BY DEF Begun
<1>5. Typed([job EXCEPT ![j] = begun])
  BY <1>2, <1>3, OneJob
<1> QED  BY <1>1, <1>2, <1>3, <1>4, <1>5

LEMMA GoOn ==
    ASSUME TypeOK, NEW j \in Jobs, NEW state \in Awaits, NEW seed \in Held,
           state \in {"check", "ensure", "ready"} => seed \in Seeds
    PROVE  /\ Typed(GoesOn(j, state, seed))
           /\ GoesOn(j, state, seed)[j] =
                 [at |-> state, key |-> job[j].key, seed |-> seed, ref |-> job[j].ref]
           /\ \A i \in Jobs \ {j} : GoesOn(j, state, seed)[i] = job[i]
<1> DEFINE to == [at |-> state, key |-> job[j].key, seed |-> seed, ref |-> job[j].ref]
<1>1. job \in [Jobs -> JobStates] /\ GoesOn(j, state, seed) = [job EXCEPT ![j] = to]
  BY DEF TypeOK, GoesOn, JobStates, Awaits
<1>2. to \in JobStates
  BY <1>1 DEF JobStates
<1>3. Typed([job EXCEPT ![j] = to])
  BY <1>2, OneJob
<1> QED  BY <1>1, <1>3

LEMMA BuildTypes ==
    ASSUME DayAssumption, TypeOK, Placed, NEW j \in Jobs, Build(j)
    PROVE  TypeOK'
<1> DEFINE key == job[j].key
           seed == SeedOf(master, key.day, version[key.day])
<1>1. key \in Keys /\ seed \in Seeds
  BY DEF Build, Placed, TypeOK, Seeds, Keys, SeedOf
<1>2. job' = GoesOn(j, "check", seed) /\ cache' = [cache EXCEPT ![key] = [seed |-> seed, ready |-> FALSE]]
  BY DEF Build
<1>3. Typed(job')
  BY <1>1, <1>2, GoOn DEF Awaits, Held
<1>4. cache' \in CacheStates
  BY <1>1, <1>2, OneContext DEF TypeOK, CacheStates
<1> QED  BY <1>3, <1>4 DEF TypeOK, Build, dbVars, tradeVars, Typed, JobStates, Awaits, CacheStates
LEMMA AdoptsSeed ==
    ASSUME TypeOK, NEW s \in Seeds
    PROVE  Adopted(s) \in Seeds /\ Adopted(s).day = s.day
  BY DEF TypeOK, Adopted, SeedOf, Seeds

LEMMA CheckTypes ==
    ASSUME TypeOK, Placed, NEW j \in Jobs, Check(j)
    PROVE  TypeOK'
<1> DEFINE key == job[j].key
           seed == Adopted(job[j].seed)
<1>1. key \in Keys /\ seed \in Seeds
  BY AdoptsSeed DEF Check, Placed, TypeOK
<1>2. /\ job' = GoesOn(j, "ensure", seed)
      /\ cache' = cache \/ cache' = [cache EXCEPT ![key] = [seed |-> seed, ready |-> FALSE]]
  BY DEF Check
<1>3. Typed(job')
  BY <1>1, <1>2, GoOn DEF Awaits, Held
<1>4. cache' \in CacheStates
  <2>1. [cache EXCEPT ![key] = [seed |-> seed, ready |-> FALSE]] \in CacheStates
    BY <1>1, OneContext
  <2>2. cache \in CacheStates
    BY DEF TypeOK, CacheStates
  <2> QED  BY <1>2, <2>1, <2>2
<1> QED  BY <1>3, <1>4 DEF TypeOK, Check, dbVars, tradeVars, Typed, JobStates, Awaits, CacheStates

LEMMA EnsureTypes ==
    ASSUME TypeOK, Placed, NEW j \in Jobs, Ensure(j)
    PROVE  TypeOK'
<1>1. job[j].key \in Keys /\ job[j].seed \in Seeds
  BY DEF Ensure, Placed, TypeOK
<1>2. job' = GoesOn(j, "ready", job[j].seed)
  BY DEF Ensure
<1>3. Typed(job')
  BY <1>1, <1>2, GoOn DEF Awaits, Held
<1>4. published' \in [Days -> Held]
  BY <1>1 DEF Ensure, TypeOK, Held, Keys
<1> QED  BY <1>3, <1>4 DEF TypeOK, Ensure, procVars, tradeVars, Typed, JobStates, Awaits, CacheStates

LEMMA ReadyTypes ==
    ASSUME TypeOK, NEW j \in Jobs, job[j].key \in Keys, job[j].at = "ready"
    PROVE  Readied(j) \in CacheStates
  BY OneContext DEF TypeOK, Readied, CacheStates

LEMMA FinishInitTypes ==
    ASSUME DayAssumption, TypeOK, Placed, NEW j \in Jobs, FinishInit(j)
    PROVE  TypeOK'
<1>1. job[j].key \in Keys /\ job[j].seed \in Seeds /\ job[j].seed \in Held
  BY DEF FinishInit, Placed, TypeOK, Held
<1>2. Idle \in JobStates /\ Idle.at = "idle" /\ job \in [Jobs -> JobStates]
  BY DEF TypeOK, Idle, JobStates, Awaits, Held
<1>3. job' = GoesOn(j, "reveal", job[j].seed) \/ job' = [job EXCEPT ![j] = Idle]
  BY DEF FinishInit
<1>4. Typed(job')
  <2>1. Typed(GoesOn(j, "reveal", job[j].seed))
    BY <1>1, GoOn DEF Awaits
  <2>2. Typed([job EXCEPT ![j] = Idle])
    BY <1>2, OneJob
  <2> QED  BY <1>3, <2>1, <2>2
<1>5. cache' \in CacheStates
  BY <1>1, ReadyTypes DEF FinishInit
<1>6. active' \in Keys /\ active'.day \in Days /\ active.day \in Days \union {0}
  BY <1>1 DEF FinishInit, Activated, Keys, TypeOK, NoKey
<1>7. reached' \in 0..LastDay
  BY <1>6 DEF FinishInit, Later, TypeOK, Days, DayAssumption
<1>8. missed' \subseteq Days
  BY <1>6 DEF FinishInit, TypeOK, NoKey, Keys
<1>9. up' = TRUE /\ UNCHANGED <<today, cfg, published, revealed, version, master, legacy, open, todo, repriced, raced, upsets>>
  BY DEF FinishInit, dbVars, tradeVars
<1> QED  BY <1>4, <1>5, <1>6, <1>7, <1>8, <1>9 DEF TypeOK, Typed, JobStates, Awaits, CacheStates
LEMMA BeginTypes ==
    ASSUME DayAssumption, TypeOK, StartBoot \/ StartRotate \/ EditConfig \/ \E t \in todo : StartRecover(t)
    PROVE  TypeOK'
<1>1. /\ [day |-> today, cfg |-> cfg] \in Keys
      /\ cfg < LastConfig => cfg + 1 \in 1..LastConfig /\ [day |-> today, cfg |-> cfg + 1] \in Keys
  BY DEF TypeOK, Keys, DayAssumption
<1>2. NoSeed \in Held /\ Left \in Held
  BY DEF TypeOK, Held, Left
<1>3. CASE StartBoot
  <2>1. Typed(job')
    BY <1>1, <1>2, <1>3, Begins DEF StartBoot, Jobs
  <2> QED  BY <1>3, <2>1 DEF StartBoot, TypeOK, dbVars, procVars, tradeVars, Typed, JobStates, Awaits
<1>4. CASE StartRotate
  <2>1. Typed(job')
    BY <1>1, <1>2, <1>4, Begins DEF StartRotate, Jobs
  <2> QED  BY <1>4, <2>1 DEF StartRotate, TypeOK, dbVars, procVars, tradeVars, Typed, JobStates, Awaits
<1>5. CASE EditConfig
  <2>1. Typed(job')
    BY <1>1, <1>2, <1>5, Begins DEF EditConfig, Jobs
  <2> QED  BY <1>1, <1>5, <2>1 DEF EditConfig, TypeOK, dbVars, procVars, tradeVars, Typed, JobStates, Awaits
<1>6. CASE \E t \in todo : StartRecover(t)
  <2>1. PICK t \in todo : StartRecover(t)
    BY <1>6
  <2>2. t.key \in Keys /\ t.seed \in Held
    BY DEF TypeOK, Opens, Held
  <2>3. Typed(job')
    BY <2>1, <2>2, Begins DEF StartRecover, KeyOf, Jobs
  <2> QED  BY <2>1, <2>3 DEF StartRecover, TypeOK, dbVars, procVars, tradeVars, Typed, JobStates, Awaits
<1> QED  BY <1>3, <1>4, <1>5, <1>6

LEMMA IdleTyped ==
    ASSUME TypeOK, NEW j \in Jobs
    PROVE  Typed([job EXCEPT ![j] = Idle])
<1>1. Idle \in JobStates /\ Idle.at = "idle"
  BY DEF Idle, JobStates, Awaits, Held
<1> QED  BY <1>1, OneJob

LEMMA OtherTypes ==
    ASSUME DayAssumption, TypeOK, Placed, Cached, Recovering,
           \/ Reveal \/ Trade \/ FinishRecover \/ Midnight \/ Restart
           \/ \E j \in Jobs : Throw(j)
           \/ \E t \in open : Settle(t)
           \/ \E d \in Days : ForceRotation(d)
    PROVE  TypeOK'
<1> USE DEF dbVars, procVars, tradeVars
<1>1. CASE Reveal
  <2>1. Typed(job') /\ revealed' \in [Days -> Held]
    BY <1>1, IdleTyped DEF Reveal, Jobs, TypeOK
  <2> QED  BY <1>1, <2>1 DEF Reveal, TypeOK, Typed, JobStates, Awaits
<1>2. CASE Trade
  <2>1. active \in Keys /\ cache[active].seed \in Seeds
    <3>1. active \in Keys \union {NoKey} /\ cache[active].ready /\ cache[NoKey].ready = FALSE
      BY <1>2 DEF Trade, TypeOK, Placed, NoContext
    <3>2. active \in Keys
      BY <3>1
    <3>3. cache[active].seed \in Held /\ cache[active].seed # NoSeed
      BY <3>1, <3>2 DEF TypeOK, Cached
    <3> QED  BY <3>2, <3>3 DEF Held
  <2>2. [key |-> active, seed |-> cache[active].seed] \in Opens
    BY <2>1 DEF Opens
  <2> QED  BY <1>2, <2>2 DEF Trade, TypeOK
<1>3. CASE FinishRecover
  <2>1. Typed(job') /\ cache' \in CacheStates /\ job["recover"].ref \in Seeds
    BY <1>3, IdleTyped, ReadyTypes DEF FinishRecover, Jobs, Placed, Recovering
  <2> QED  BY <1>3, <2>1 DEF FinishRecover, TypeOK, Typed, JobStates, Awaits, CacheStates
<1>4. CASE Midnight
  BY <1>4 DEF Midnight, TypeOK, Days, DayAssumption
<1>5. CASE Restart
  <2>1. Idle \in JobStates /\ Idle.at = "idle" /\ NoContext \in [seed : Held, ready : BOOLEAN]
    BY DEF Idle, JobStates, Awaits, Held, NoContext
  <2>2. Typed(job') /\ cache' \in CacheStates
    BY <1>5, <2>1 DEF Restart, Typed, CacheStates
  <2>3. active.day \in Days \union {0} /\ \A j \in Jobs : Hands(j) \subseteq Days
    BY DEF TypeOK, NoKey, Keys, Hands, Held, Seeds, NoSeed
  <2>4. master' \in 1..LastMaster /\ legacy' \in 0..LastMaster /\ upsets' \in 0..MaxUpsets
    BY <1>5 DEF Restart, TypeOK, DayAssumption
  <2>5. missed' \subseteq Days
    BY <1>5, <2>3 DEF Restart, TypeOK
  <2>6. /\ up' = FALSE /\ active' = NoKey /\ reached' = 0 /\ 0 \in 0..LastDay /\ todo' = open
        /\ UNCHANGED <<today, cfg, published, revealed, version, open, repriced, raced>>
    BY <1>5 DEF Restart, DayAssumption
  <2> QED  BY <2>2, <2>4, <2>5, <2>6 DEF TypeOK, Typed, JobStates, Awaits, CacheStates
<1>6. ASSUME NEW j \in Jobs, Throw(j)  PROVE TypeOK'
  <2>1. Typed(job')
    BY <1>6, IdleTyped DEF Throw
  <2>2. Hands(j) \subseteq Days
    BY DEF TypeOK, NoKey, Keys, Hands, Held, Seeds, NoSeed
  <2> QED  BY <1>6, <2>1, <2>2 DEF Throw, TypeOK, Typed, JobStates, Awaits, DayAssumption
<1>7. ASSUME NEW t \in open, Settle(t)  PROVE TypeOK'
  BY <1>7 DEF Settle, TypeOK
<1>8. ASSUME NEW d \in Days, ForceRotation(d)  PROVE TypeOK'
  <2>1. version' \in [Days -> 0..MaxVersion]
    BY <1>8 DEF ForceRotation, TypeOK, DayAssumption
  <2> QED  BY <1>8, <2>1 DEF ForceRotation, TypeOK
<1> QED  BY <1>1, <1>2, <1>3, <1>4, <1>5, <1>6, <1>7, <1>8
-----------------------------------------------------------------------------
(* Steps that leave every day's record alone.                              *)

DaysKept == UNCHANGED <<published, version, master, legacy, raced>>

LEMMA Alike ==
    ASSUME DaysKept
    PROVE  /\ \A s, d : (Possible(s, d))' <=> Possible(s, d)
           /\ \A s, d : (Agreed(s, d))' <=> Agreed(s, d)
           /\ \A s, d : (Sure(s, d))' <=> Sure(s, d)
           /\ Published' <=> Published
           /\ \A d : (LetOff(d))' <=> LetOff(d)
           /\ \A d : Fresh(d)' = Fresh(d)
  BY DEF DaysKept, Possible, Agreed, Sure, LetOff, Orphaned, Fresh, Published

Kept == Placed /\ Cached /\ Working

\* What makes a job's new state, and a cached context, sound by themselves.
SoundJob(to) ==
    /\ to.at # "idle" => to.key \in Keys
    /\ to.at \in {"check", "ensure", "ready"} => to.seed.day = to.key.day
    /\ to.at = "check" => Possible(to.seed, to.key.day)
    /\ to.at = "ensure" => Agreed(to.seed, to.key.day)
    /\ to.at = "ready" => Sure(to.seed, to.key.day)

SoundContext(c, d) ==
    /\ c.seed # NoSeed /\ c.seed.day = d /\ Possible(c.seed, d)
    /\ c.ready => Sure(c.seed, d)

LEMMA Moves ==
    ASSUME TypeOK, Kept, DaysKept, NEW j \in Jobs,
           \A i \in Jobs \ {j} : job'[i] = job[i],
           SoundJob(job'[j]),
           job'[j].at \in {"check", "ensure", "ready"} => cache'[job'[j].key].seed # NoSeed,
           cache'[NoKey] = cache[NoKey],
           \A k \in Keys : cache'[k] = cache[k] \/ SoundContext(cache'[k], k.day)
    PROVE  Kept'
<1>1. Placed'
  BY DEF Kept, Placed, SoundJob, SoundContext
<1>2. Cached'
  BY Alike DEF Kept, Cached, SoundContext
<1>3. Working'
  BY Alike DEF Kept, Working, SoundJob
<1> QED  BY <1>1, <1>2, <1>3 DEF Kept

LEMMA BuildKept ==
    ASSUME TypeOK, Kept, NEW j \in Jobs, Build(j)
    PROVE  Kept' /\ DaysKept
<1> DEFINE key == job[j].key
           seed == SeedOf(master, key.day, version[key.day])
<1>1. key \in Keys /\ key # NoKey /\ seed = Fresh(key.day) /\ seed.day = key.day /\ seed # NoSeed
  BY DEF Build, Kept, Placed, TypeOK, Keys, SeedOf, Fresh, NoSeed, NoKey, Days
<1>2. job' = GoesOn(j, "check", seed) /\ cache' = [cache EXCEPT ![key] = [seed |-> seed, ready |-> FALSE]]
  BY DEF Build
<1>3. DaysKept
  BY DEF Build, DaysKept, dbVars
<1>4. /\ \A i \in Jobs \ {j} : job'[i] = job[i]
      /\ job'[j].at = "check" /\ job'[j].key = key /\ job'[j].seed = seed
  BY <1>1, <1>2 DEF GoesOn, TypeOK
<1>5. /\ \A k \in (Keys \union {NoKey}) \ {key} : cache'[k] = cache[k]
      /\ cache'[key].seed = seed /\ cache'[key].ready = FALSE
  BY <1>1, <1>2 DEF TypeOK
<1>6. Possible(seed, key.day)
  BY <1>1 DEF Possible
<1> QED  BY <1>1, <1>3, <1>4, <1>5, <1>6, Moves DEF SoundJob, SoundContext

\* adoptPublishedContext turns what may be into what will be found or published.
LEMMA AdoptsPublished ==
    ASSUME TypeOK, Published, NEW s \in Seeds, Possible(s, s.day)
    PROVE  Agreed(Adopted(s), s.day) /\ Possible(Adopted(s), s.day)
<1> DEFINE d == s.day
           old == SeedOf(legacy, d, s.version)
<1>1. d \in Days /\ s # NoSeed
  BY DEF Seeds, NoSeed, Days
<1>2. CASE LetOff(d)
  BY <1>2 DEF Agreed, Possible
<1>3. CASE ~LetOff(d) /\ published[d] = NoSeed
  <2>1. s = Fresh(d) /\ old # NoSeed
    BY <1>1, <1>3 DEF Possible, SeedOf, NoSeed, Days
  <2> QED  BY <1>3, <2>1 DEF Adopted, Agreed, Possible
<1>4. CASE ~LetOff(d) /\ published[d] # NoSeed
  <2> DEFINE was == published[d]
  <2>1. /\ was \in Seeds /\ was.day = d /\ was.version = version[d]
        /\ was.master \in {master, legacy}
    BY <1>1, <1>4 DEF Published, LetOff, Orphaned, TypeOK, Held
  <2>2. s.version = version[d]
    BY <1>4, <2>1 DEF Possible, Fresh
  <2>3. was = SeedOf(was.master, d, version[d])
    BY <2>1 DEF Seeds, SeedOf
  <2>4. was = Fresh(d) \/ (was = old /\ legacy # 0)
    BY <2>1, <2>2, <2>3 DEF Fresh, SeedOf, Seeds
  <2>5. Adopted(s) = IF legacy # 0 /\ was = old THEN old ELSE s
    BY DEF Adopted
  <2>6. Adopted(s) = was
    BY <1>4, <2>4, <2>5 DEF Possible
  <2> QED  BY <1>4, <2>6 DEF Agreed, Possible
<1> QED  BY <1>2, <1>3, <1>4

LEMMA CheckKept ==
    ASSUME TypeOK, Kept, Published, NEW j \in Jobs, Check(j)
    PROVE  Kept' /\ DaysKept
<1> DEFINE key == job[j].key
           old == job[j].seed
<1> HIDE DEF old
<1>1. key \in Keys /\ key # NoKey /\ old \in Seeds /\ old.day = key.day /\ Possible(old, key.day)
  BY DEF Check, Kept, Placed, Working, TypeOK, Keys, NoKey, Days, old
<1>2. PICK seed : seed = Adopted(old)
  OBVIOUS
<1>3. /\ seed \in Seeds /\ seed # NoSeed /\ seed.day = key.day
      /\ Agreed(seed, key.day) /\ Possible(seed, key.day)
  BY <1>1, <1>2, AdoptsSeed, AdoptsPublished DEF Seeds, NoSeed, Days
<1>4. /\ job' = GoesOn(j, "ensure", seed)
      /\ \/ cache' = cache /\ seed = old
         \/ cache' = [cache EXCEPT ![key] = [seed |-> seed, ready |-> FALSE]]
  BY <1>2 DEF Check, old
<1>5. DaysKept
  BY DEF Check, DaysKept, dbVars
<1>6. /\ \A i \in Jobs \ {j} : job'[i] = job[i]
      /\ job'[j].at = "ensure" /\ job'[j].key = key /\ job'[j].seed = seed
  BY <1>4 DEF GoesOn, TypeOK
<1>7. /\ \A k \in (Keys \union {NoKey}) \ {key} : cache'[k] = cache[k]
      /\ \/ cache'[key] = cache[key]
         \/ cache'[key].seed = seed /\ cache'[key].ready = FALSE
  BY <1>1, <1>4 DEF TypeOK
<1>8. cache[key].seed # NoSeed
  BY DEF Check, Kept, Placed
<1> QED  BY <1>1, <1>3, <1>5, <1>6, <1>7, <1>8, Moves DEF SoundJob, SoundContext
\* What is put in the database, or was, is what the job has.
LEMMA ReadyKept ==
    ASSUME TypeOK, Kept, NEW j \in Jobs, job[j].at = "ready", cache' = Readied(j), DaysKept,
           \A i \in Jobs \ {j} : job'[i] = job[i],
           job'[j].at \in {"idle", "reveal"}, job'[j].at # "idle" => job'[j].key = job[j].key
    PROVE  Kept'
<1> DEFINE key == job[j].key
           seed == job[j].seed
<1>1. /\ key \in Keys /\ key # NoKey /\ seed.day = key.day
      /\ Sure(seed, key.day) /\ seed \in Seeds /\ seed # NoSeed
  BY DEF Kept, Placed, Working, TypeOK, Keys, NoKey, Days, Seeds, NoSeed
<1>2. Possible(seed, key.day)
  BY <1>1 DEF Sure, Possible
<1>3. /\ \A k \in (Keys \union {NoKey}) \ {key} : cache'[k] = cache[k]
      /\ \/ cache'[key] = cache[key]
         \/ cache'[key].seed = seed /\ cache'[key].ready = TRUE
  BY <1>1 DEF Readied, TypeOK
<1>4. SoundJob(job'[j])
  BY <1>1 DEF SoundJob
<1> QED  BY <1>1, <1>2, <1>3, <1>4, Moves DEF SoundContext

LEMMA FinishKept ==
    ASSUME TypeOK, Kept, \/ FinishRecover
                         \/ \E j \in Jobs : FinishInit(j)
    PROVE  Kept' /\ DaysKept
<1>1. CASE FinishRecover
  <2>1. DaysKept /\ job' = [job EXCEPT !["recover"] = Idle] /\ cache' = Readied("recover")
    BY <1>1 DEF FinishRecover, DaysKept, dbVars
  <2>2. (\A i \in Jobs \ {"recover"} : job'[i] = job[i]) /\ job'["recover"].at = "idle"
    BY <2>1 DEF TypeOK, Jobs, Idle
  <2> QED  BY <1>1, <2>1, <2>2, ReadyKept DEF FinishRecover, Jobs
<1>2. CASE \E j \in Jobs : FinishInit(j)
  <2>1. PICK j \in Jobs : FinishInit(j)
    BY <1>2
  <2>2. /\ DaysKept /\ cache' = Readied(j) /\ job[j].at = "ready"
        /\ job' = [job EXCEPT ![j] = Idle] \/ job' = GoesOn(j, "reveal", job[j].seed)
    BY <2>1 DEF FinishInit, DaysKept, dbVars
  <2>3. /\ \A i \in Jobs \ {j} : job'[i] = job[i]
        /\ job'[j].at \in {"idle", "reveal"} /\ (job'[j].at # "idle" => job'[j].key = job[j].key)
    BY <2>2 DEF TypeOK, GoesOn, Idle
  <2> QED  BY <2>2, <2>3, ReadyKept
<1> QED  BY <1>1, <1>2

LEMMA BeginKept ==
    ASSUME TypeOK, Kept, NEW j \in Jobs, NEW key \in Keys, NEW ref \in Held,
           job' = Begun(j, key, ref), UNCHANGED cache, DaysKept
    PROVE  Kept'
<1>1. /\ \A i \in Jobs \ {j} : job'[i] = job[i]
      /\ job'[j].key = key /\ job'[j].seed = cache[key].seed
      /\ job'[j].at = IF cache[key].seed = NoSeed THEN "version"
                      ELSE IF cache[key].ready THEN "ready" ELSE "check"
  BY DEF Begun, TypeOK
<1>2. SoundJob(job'[j])
  BY <1>1 DEF SoundJob, Kept, Cached
<1> QED  BY <1>1, <1>2, Moves

LEMMA StopKept ==
    ASSUME TypeOK, Kept, NEW j \in Jobs, job' = [job EXCEPT ![j] = Idle], UNCHANGED cache, DaysKept
    PROVE  Kept'
<1>1. (\A i \in Jobs \ {j} : job'[i] = job[i]) /\ job'[j].at = "idle"
  BY DEF TypeOK, Idle
<1>2. SoundJob(job'[j])
  BY <1>1 DEF SoundJob
<1> QED  BY <1>1, <1>2, Moves

LEMMA StartKept ==
    ASSUME DayAssumption, TypeOK, Kept,
           StartBoot \/ StartRotate \/ EditConfig \/ \E t \in todo : StartRecover(t)
    PROVE  Kept' /\ DaysKept
<1>1. /\ [day |-> today, cfg |-> cfg] \in Keys
      /\ cfg < LastConfig => [day |-> today, cfg |-> cfg + 1] \in Keys
      /\ NoSeed \in Held /\ Left \in Held
  BY DEF TypeOK, Keys, DayAssumption, Held, Left
<1>2. DaysKept /\ UNCHANGED cache
  BY DEF StartBoot, StartRotate, EditConfig, StartRecover, DaysKept, dbVars, procVars
<1>3. CASE StartBoot
  BY <1>1, <1>2, <1>3, BeginKept DEF StartBoot, Jobs
<1>4. CASE StartRotate
  BY <1>1, <1>2, <1>4, BeginKept DEF StartRotate, Jobs
<1>5. CASE EditConfig
  BY <1>1, <1>2, <1>5, BeginKept DEF EditConfig, Jobs
<1>6. CASE \E t \in todo : StartRecover(t)
  <2>1. PICK t \in todo : StartRecover(t)
    BY <1>6
  <2>2. t.key \in Keys /\ t.seed \in Held
    BY DEF TypeOK, Opens, Held
  <2> QED  BY <1>2, <2>1, <2>2, BeginKept DEF StartRecover, KeyOf, Jobs
<1> QED  BY <1>2, <1>3, <1>4, <1>5, <1>6

LEMMA QuietKept ==
    ASSUME TypeOK, Kept, \/ Reveal \/ Trade \/ Midnight
                         \/ \E j \in Jobs : Throw(j)
                         \/ \E t \in open : Settle(t)
    PROVE  Kept' /\ DaysKept
<1>1. DaysKept /\ UNCHANGED cache
  BY DEF Reveal, Trade, Midnight, Throw, Settle, DaysKept, dbVars, procVars
<1>2. CASE Reveal
  BY <1>1, <1>2, StopKept DEF Reveal, Jobs
<1>3. CASE \E j \in Jobs : Throw(j)
  BY <1>1, <1>3, StopKept DEF Throw
<1>4. CASE UNCHANGED job
  BY <1>1, <1>4, Alike DEF Kept, Placed, Cached, Working
<1> QED  BY <1>1, <1>2, <1>3, <1>4 DEF Trade, Midnight, Settle
-----------------------------------------------------------------------------
(* Steps that write a day's record: what was sure stays so.                *)

Lasts ==
    /\ Published'
    /\ \A d \in Days : LetOff(d) => (LetOff(d))'
    /\ \A s \in Seeds, d \in Days : Sure(s, d) => (Sure(s, d))'

LEMMA KeptLasts ==
    ASSUME DaysKept, Published
    PROVE  Lasts
  BY Alike DEF Lasts

LEMMA EnsureKept ==
    ASSUME TypeOK, Kept, Published, NEW j \in Jobs, Ensure(j)
    PROVE  Kept' /\ Lasts
<1>0. PICK key, seed : key = job[j].key /\ seed = job[j].seed
  OBVIOUS
<1> DEFINE d == key.day
<1>1. /\ key \in Keys /\ d \in Days /\ seed \in Seeds /\ seed # NoSeed /\ seed.day = d
      /\ Agreed(seed, d) /\ cache[key].seed # NoSeed
  BY <1>0 DEF Ensure, Kept, Placed, Working, TypeOK, Keys, Seeds, NoSeed, Days
<1>2. /\ UNCHANGED <<version, master, legacy, raced, cache>>
      /\ published' = IF published[d] # NoSeed THEN published ELSE [published EXCEPT ![d] = seed]
  BY <1>0 DEF Ensure, procVars
<1>3. /\ \A i \in Jobs \ {j} : job'[i] = job[i]
      /\ job'[j].at = "ready" /\ job'[j].key = key /\ job'[j].seed = seed
  BY <1>0 DEF Ensure, GoesOn, TypeOK
<1>4. /\ \A e \in Days : published[e] # NoSeed \/ e # d => published'[e] = published[e]
      /\ published[d] = NoSeed => published'[d] = seed
  BY <1>1, <1>2 DEF TypeOK
<1>5. \A e \in Days : Fresh(e)' = Fresh(e)
  BY <1>2 DEF Fresh
<1>6. published[d] = NoSeed => d \in raced \/ seed = Fresh(d)
  BY <1>1 DEF Agreed, LetOff, Orphaned
<1>7. \A e \in Days : LetOff(e) => (LetOff(e))'
  BY <1>2, <1>4 DEF LetOff, Orphaned
<1>8. \A s \in Seeds, e \in Days : Sure(s, e) => (Sure(s, e))'
  <2>1. SUFFICES ASSUME NEW s \in Seeds, NEW e \in Days, Sure(s, e)  PROVE (Sure(s, e))'
    OBVIOUS
  <2> QED  BY <1>4, <1>7, <2>1 DEF Sure
<1>9. \A s \in Seeds, e \in Days : Possible(s, e) => (Possible(s, e))'
  <2>1. SUFFICES ASSUME NEW s \in Seeds, NEW e \in Days, Possible(s, e)  PROVE (Possible(s, e))'
    OBVIOUS
  <2>2. s # NoSeed
    BY DEF Seeds, NoSeed, Days
  <2> QED  BY <1>4, <1>5, <1>7, <2>1, <2>2 DEF Possible
<1>10. \A s \in Seeds, e \in Days : Agreed(s, e) => (Agreed(s, e))'
  <2>1. SUFFICES ASSUME NEW s \in Seeds, NEW e \in Days, Agreed(s, e)  PROVE (Agreed(s, e))'
    OBVIOUS
  <2>2. CASE published'[e] = published[e]
    BY <1>5, <1>7, <2>1, <2>2 DEF Agreed
  <2>3. CASE published'[e] # published[e]
    <3>1. e = d /\ published[d] = NoSeed /\ published'[d] = seed
      BY <1>4, <2>3
    <3>2. d \in raced => (LetOff(d))'
      BY <1>2 DEF LetOff
    <3> QED  BY <1>1, <1>5, <1>6, <1>7, <2>1, <3>1, <3>2 DEF Agreed
  <2> QED  BY <2>2, <2>3
<1>11. (Sure(seed, d))'
  <2>1. CASE published[d] = NoSeed
    BY <1>1, <1>3, <1>4, <2>1 DEF Sure
  <2>2. CASE published[d] # NoSeed
    BY <1>1, <1>3, <1>4, <1>7, <2>2 DEF Sure, Agreed
  <2> QED  BY <2>1, <2>2
<1>12. Placed'
  BY <1>1, <1>2, <1>3 DEF Kept, Placed
<1>13. Cached'
  <2>1. \A k \in Keys : k.day \in Days /\ (cache[k].seed # NoSeed => cache[k].seed \in Seeds)
    BY DEF TypeOK, Keys, Held
  <2> QED  BY <1>2, <1>8, <1>9, <2>1 DEF Kept, Cached
<1>14. \A i \in Jobs : job[i].at \in {"check", "ensure", "ready"} =>
          job[i].key.day \in Days /\ job[i].seed \in Seeds
  BY DEF Kept, Placed, Keys, TypeOK
<1>15. Working'
  BY <1>3, <1>8, <1>9, <1>10, <1>11, <1>14 DEF Kept, Working
<1>16. Published'
  <2>1. published'[d] = seed => published'[d].day = d /\ seed.master \in Int /\ seed.version \in Int
    BY <1>1 DEF Seeds
  <2>2. seed = Fresh(d) => seed.version = version[d] /\ seed.master <= master
    BY DEF Fresh, TypeOK
  <2> QED  BY <1>2, <1>4, <1>6, <2>1, <2>2 DEF Published
<1> QED  BY <1>7, <1>8, <1>12, <1>13, <1>15, <1>16 DEF Kept, Lasts
LEMMA ForceKept ==
    ASSUME TypeOK, Kept, Published, NEW d \in Days, ForceRotation(d)
    PROVE  Kept' /\ Lasts
<1>1. /\ UNCHANGED <<published, master, legacy, cache, job>>
      /\ version' = [version EXCEPT ![d] = @ + 1] /\ raced \subseteq raced'
      /\ d \in raced' \/ (published[d] = NoSeed /\ \A k \in Keys : k.day = d => cache[k].seed = NoSeed)
  BY DEF ForceRotation, procVars
<1>2. \A e \in Days : e # d => version'[e] = version[e]
  BY <1>1 DEF TypeOK
<1>3. \A e : LetOff(e) => (LetOff(e))'
  BY <1>1 DEF LetOff, Orphaned
<1>4. d \in raced' => (LetOff(d))'
  BY DEF LetOff
<1>5. \A s, e : Sure(s, e) => (Sure(s, e))'
  BY <1>1, <1>3 DEF Sure
<1>6. \A k \in Keys : cache[k].seed # NoSeed => k.day # d \/ (LetOff(d))'
  BY <1>1, <1>4
<1>7. \A s, e : e \in Days /\ e # d =>
          (Possible(s, e) => (Possible(s, e))') /\ (Agreed(s, e) => (Agreed(s, e))')
  BY <1>1, <1>2, <1>3 DEF Possible, Agreed, Fresh
<1>8. \A s : (LetOff(d))' => (Possible(s, d))' /\ (Agreed(s, d))'
  BY DEF Possible, Agreed
<1>9. Placed'
  BY <1>1 DEF Kept, Placed
<1>10. Cached'
  BY <1>1, <1>5, <1>6, <1>7, <1>8 DEF Kept, Cached, Keys
<1>11. \A i \in Jobs : job[i].at \in {"check", "ensure", "ready"} =>
          job[i].key \in Keys /\ job[i].key.day \in Days /\ cache[job[i].key].seed # NoSeed
  BY DEF Kept, Placed, Keys
<1>12. Working'
  BY <1>1, <1>5, <1>6, <1>7, <1>8, <1>11 DEF Kept, Working
<1>13. Published'
  BY <1>1, <1>2 DEF Published
<1> QED  BY <1>3, <1>5, <1>9, <1>10, <1>12, <1>13 DEF Kept, Lasts

LEMMA RestartKept ==
    ASSUME DayAssumption, TypeOK, Published, Restart
    PROVE  Kept' /\ Lasts
<1>1. /\ \A k \in Keys \union {NoKey} : cache'[k] = NoContext
      /\ \A j \in Jobs : job'[j] = Idle
      /\ UNCHANGED <<published, version, raced>>
  BY DEF Restart, dbVars
<1>2. /\ master' \in Nat /\ master' >= master
      /\ \A m \in 1..LastMaster : m <= master /\ m \notin {master, legacy} => m \notin {master', legacy'}
  BY DEF Restart, TypeOK, DayAssumption
<1>3. Kept'
  <2>1. Placed'
    BY <1>1 DEF Placed, Idle
  <2>2. \A k \in Keys : cache'[k].seed = NoSeed /\ cache'[k].ready = FALSE
    BY <1>1 DEF NoContext
  <2>3. Cached'
    BY <2>2 DEF Cached
  <2>4. Working'
    BY <1>1 DEF Working, Idle
  <2> QED  BY <2>1, <2>3, <2>4 DEF Kept
<1>4. \A d \in Days : published[d] # NoSeed => published[d].master \in 1..LastMaster
  BY DEF TypeOK, Held, Seeds
<1>5. Published'
  BY <1>1, <1>2, <1>4 DEF Published, TypeOK
<1>6. \A d \in Days : LetOff(d) => (LetOff(d))'
  BY <1>1, <1>2, <1>4 DEF LetOff, Orphaned, Published
<1>7. \A s \in Seeds, d \in Days : Sure(s, d) => (Sure(s, d))'
  BY <1>1, <1>6 DEF Sure
<1> QED  BY <1>3, <1>5, <1>6, <1>7 DEF Lasts

-----------------------------------------------------------------------------
(* Open trades and their recovery.                                         *)

Traded == Opened /\ Recovering /\ RecoveredAsPriced

LEMMA TradedLasts ==
    ASSUME TypeOK, Kept, Published, Traded, Lasts, todo' \subseteq open', open' \subseteq open,
           repriced' = repriced, job'["recover"].at = "idle" \/ (job["recover"].at # "idle"
              /\ job'["recover"].ref = job["recover"].ref /\ job'["recover"].key = job["recover"].key)
    PROVE  Traded'
<1>1. \A t \in open : t.key.day \in Days /\ t.seed \in Seeds
  BY DEF TypeOK, Opens, Keys
<1>2. Opened'
  BY <1>1 DEF Traded, Opened, Lasts
<1>3. job["recover"].at # "idle" => job["recover"].key.day \in Days
  BY DEF Kept, Placed, Keys, Jobs
<1>4. Recovering'
  BY <1>3 DEF Traded, Recovering, Lasts
<1>5. \A s \in repriced : s.day \in Days
  BY DEF TypeOK, Seeds
<1>6. RecoveredAsPriced'
  BY <1>5 DEF Traded, RecoveredAsPriced, LetOff, Lasts
<1> QED  BY <1>2, <1>4, <1>6 DEF Traded

LEMMA TradeTraded ==
    ASSUME TypeOK, Kept, Published, Traded, Lasts, DaysKept, Trade
    PROVE  Traded'
<1>1. active \in Keys
  <2>1. active \in Keys \union {NoKey} /\ cache[active].ready /\ cache[NoKey].ready = FALSE
    BY DEF Trade, TypeOK, Kept, Placed, NoContext
  <2> QED  BY <2>1
<1>2. PICK t : t = [key |-> active, seed |-> cache[active].seed]
  OBVIOUS
<1>3. t.seed.day = t.key.day /\ Sure(t.seed, t.key.day)
  BY <1>1, <1>2 DEF Trade, Kept, Cached
<1>4. open' = open \union {t} /\ UNCHANGED <<todo, repriced, job>>
  BY <1>2 DEF Trade
<1>5. Opened'
  BY <1>3, <1>4, Alike DEF Traded, Opened
<1>6. Recovering' /\ RecoveredAsPriced'
  BY <1>4, Alike DEF Traded, Recovering, RecoveredAsPriced, LetOff
<1> QED  BY <1>5, <1>6 DEF Traded

LEMMA StartRecoverTraded ==
    ASSUME TypeOK, Traded, DaysKept, NEW t \in todo, StartRecover(t)
    PROVE  Traded'
<1>1. /\ t \in open /\ t.key \in Keys /\ t.seed \in Seeds /\ t.seed \in Held
      /\ t.seed.day = t.key.day /\ Sure(t.seed, t.key.day)
  BY DEF Traded, Opened, TypeOK, Opens, Held
<1>2. job' = Begun("recover", t.key, t.seed) /\ todo' = todo \ {t} /\ UNCHANGED <<open, repriced>>
  BY DEF StartRecover, KeyOf
<1>3. job'["recover"].ref = t.seed /\ job'["recover"].key = t.key
  BY <1>1, <1>2, Begins DEF Jobs
<1>4. Opened' /\ RecoveredAsPriced'
  BY <1>2, Alike DEF Traded, Opened, RecoveredAsPriced, LetOff
<1>5. Recovering'
  BY <1>1, <1>3, Alike DEF Recovering
<1> QED  BY <1>4, <1>5 DEF Traded

LEMMA FinishRecoverTraded ==
    ASSUME TypeOK, Kept, Traded, DaysKept, FinishRecover
    PROVE  Traded'
<1> DEFINE ref == job["recover"].ref
<1>1. /\ job["recover"].at = "ready" /\ job'["recover"].at = "idle" /\ UNCHANGED <<open, todo>>
      /\ repriced' = IF job["recover"].seed = ref THEN repriced ELSE repriced \union {ref}
  BY DEF FinishRecover, TypeOK, Jobs, Idle
<1>2. job["recover"].seed # ref => LetOff(ref.day)
  BY <1>1 DEF Kept, Working, Traded, Recovering, Sure, Jobs
<1>3. Opened' /\ Recovering'
  BY <1>1, Alike DEF Traded, Opened, Recovering
<1>4. \A s \in repriced' : LetOff(s.day)
  BY <1>1, <1>2 DEF Traded, RecoveredAsPriced, LetOff
<1>5. RecoveredAsPriced'
  BY <1>4, Alike DEF RecoveredAsPriced, LetOff
<1> QED  BY <1>3, <1>5 DEF Traded

-----------------------------------------------------------------------------
(* The theorems.                                                           *)

Inv == TypeOK /\ Kept /\ Published /\ Traded

LEMMA Initially == ASSUME DayAssumption, Init  PROVE Inv
<1>1. NoSeed \in Held /\ NoContext \in [seed : Held, ready : BOOLEAN] /\ Idle \in JobStates /\ Idle.at = "idle"
  BY DEF Held, NoContext, Idle, JobStates, Awaits
<1>2. job \in [Jobs -> JobStates] /\ \A j \in Jobs : job[j].at = "idle"
  BY <1>1 DEF Init
<1>3. TypeOK
  <2>1. /\ today \in Days /\ cfg \in 1..LastConfig /\ master \in 1..LastMaster
        /\ legacy \in 0..LastMaster /\ reached \in 0..LastDay /\ upsets \in 0..MaxUpsets
        /\ \A d \in Days : version[d] \in 0..MaxVersion
    BY DEF Init, DayAssumption, Days
  <2>2. /\ published \in [Days -> Held] /\ revealed \in [Days -> Held]
        /\ version \in [Days -> 0..MaxVersion]
        /\ cache \in [Keys \union {NoKey} -> [seed : Held, ready : BOOLEAN]]
    BY <1>1, <2>1 DEF Init
  <2>3. job \in [Jobs -> JobStates]
        /\ \A j \in Jobs : job[j].at \in {"check", "ensure", "ready"} => job[j].seed \in Seeds
    BY <1>2
  <2> QED  BY <2>1, <2>2, <2>3 DEF Init, TypeOK, JobStates, Awaits
<1>4. Placed /\ Working
  BY <1>2 DEF Init, Placed, Working
<1>5. Cached
  <2>1. \A k \in Keys : cache[k].seed = NoSeed /\ cache[k].ready = FALSE
    BY DEF Init, NoContext
  <2> QED  BY <2>1 DEF Cached
<1>6. Published /\ Traded
  BY <1>2 DEF Init, Published, Traded, Opened, Recovering, RecoveredAsPriced, Jobs
<1> QED  BY <1>3, <1>4, <1>5, <1>6 DEF Inv, Kept

LEMMA StepSafe ==
    ASSUME DayAssumption, Inv, NEW j \in Jobs, Step(j)
    PROVE  Inv'
<1> USE DEF Inv
<1>1. TypeOK'
  BY BuildTypes, CheckTypes, EnsureTypes, FinishInitTypes DEF Step, Kept
<1>2. Kept' /\ Lasts
  <2>1. CASE Build(j)
    BY <2>1, BuildKept, KeptLasts
  <2>2. CASE Check(j)
    BY <2>2, CheckKept, KeptLasts
  <2>3. CASE Ensure(j)
    BY <2>3, EnsureKept
  <2>4. CASE FinishInit(j)
    BY <2>4, FinishKept, KeptLasts
  <2> QED  BY <2>1, <2>2, <2>3, <2>4 DEF Step
<1>3. UNCHANGED <<open, todo, repriced>>
  BY DEF Step, Build, Check, Ensure, FinishInit, tradeVars
<1>4. job'["recover"].at = "idle" \/ (job["recover"].at # "idle"
         /\ job'["recover"].ref = job["recover"].ref /\ job'["recover"].key = job["recover"].key)
  <2>1. job[j].at # "idle"
    BY DEF Step, Build, Check, Ensure, FinishInit
  <2>2. \/ job' = [job EXCEPT ![j] = Idle]
        \/ \E state, seed : job' = GoesOn(j, state, seed)
    BY DEF Step, Build, Check, Ensure, FinishInit
  <2>3. CASE job' = [job EXCEPT ![j] = Idle]
    BY <2>3 DEF TypeOK, Idle, Jobs
  <2>4. CASE \E state, seed : job' = GoesOn(j, state, seed)
    BY <2>1, <2>4 DEF TypeOK, GoesOn, Jobs
  <2> QED  BY <2>2, <2>3, <2>4
<1>5. Traded'
  BY <1>2, <1>3, <1>4, TradedLasts DEF Traded, Opened
<1> QED  BY <1>1, <1>2, <1>5 DEF Lasts

LEMMA StartSafe ==
    ASSUME DayAssumption, Inv,
           StartBoot \/ StartRotate \/ EditConfig \/ \E t \in todo : StartRecover(t)
    PROVE  Inv'
<1> USE DEF Inv
<1>1. TypeOK' /\ Kept' /\ DaysKept /\ Lasts
  BY BeginTypes, StartKept, KeptLasts
<1>2. CASE \E t \in todo : StartRecover(t)
  BY <1>1, <1>2, StartRecoverTraded DEF Lasts
<1>3. CASE StartBoot \/ StartRotate \/ EditConfig
  <2>1. UNCHANGED <<open, todo, repriced>> /\ job'["recover"] = job["recover"]
    BY <1>3 DEF StartBoot, StartRotate, EditConfig, Begun, tradeVars, TypeOK, Jobs
  <2>2. todo' \subseteq open' /\ open' \subseteq open
    BY <2>1 DEF Traded, Opened
  <2> QED  BY <1>1, <2>1, <2>2, TradedLasts DEF Lasts
<1> QED  BY <1>2, <1>3

LEMMA OtherSafe ==
    ASSUME DayAssumption, Inv,
           \/ Reveal \/ Trade \/ FinishRecover \/ Midnight \/ Restart
           \/ \E j \in Jobs : Throw(j)
           \/ \E t \in open : Settle(t)
           \/ \E d \in Days : ForceRotation(d)
    PROVE  Inv'
<1> USE DEF Inv
<1>1. TypeOK'
  BY OtherTypes DEF Kept, Traded
<1>2. Kept' /\ Lasts
  <2>1. CASE \/ Reveal \/ Trade \/ Midnight
             \/ \E j \in Jobs : Throw(j)
             \/ \E t \in open : Settle(t)
    BY <2>1, QuietKept, KeptLasts
  <2>2. CASE FinishRecover
    BY <2>2, FinishKept, KeptLasts
  <2>3. CASE Restart
    BY <2>3, RestartKept
  <2>4. CASE \E d \in Days : ForceRotation(d)
    BY <2>4, ForceKept
  <2> QED  BY <2>1, <2>2, <2>3, <2>4
<1>3. Traded'
  <2>1. CASE Trade
    BY <1>2, <2>1, QuietKept, TradeTraded
  <2>2. CASE FinishRecover
    BY <2>2, FinishKept, FinishRecoverTraded
  <2>3. CASE Restart
    <3>1. job'["recover"].at = "idle" /\ todo' = open /\ open' = open /\ repriced' = repriced
      BY <2>3 DEF Restart, Idle, Jobs
    <3> QED  BY <1>2, <3>1, TradedLasts
  <2>4. CASE \E t \in open : Settle(t)
    <3>1. /\ todo' \subseteq open' /\ open' \subseteq open /\ repriced' = repriced
          /\ job' = job
      BY <2>4 DEF Settle, Traded, Opened
    <3> QED  BY <1>2, <3>1, TradedLasts
  <2>5. CASE \/ Reveal \/ Midnight
             \/ \E j \in Jobs : Throw(j)
             \/ \E d \in Days : ForceRotation(d)
    <3>1. /\ UNCHANGED <<open, todo, repriced>>
          /\ job' = job \/ \E j \in Jobs : job' = [job EXCEPT ![j] = Idle]
      BY <2>5 DEF Reveal, Midnight, Throw, ForceRotation, tradeVars, Jobs
    <3>2. job'["recover"] = job["recover"] \/ job'["recover"].at = "idle"
      BY <3>1 DEF TypeOK, Idle, Jobs
    <3>3. todo' \subseteq open' /\ open' \subseteq open
      BY <3>1 DEF Traded, Opened
    <3> QED  BY <1>2, <3>1, <3>2, <3>3, TradedLasts
  <2> QED  BY <2>1, <2>2, <2>3, <2>4, <2>5
<1> QED  BY <1>1, <1>2, <1>3 DEF Lasts

LEMMA Invariant == ASSUME DayAssumption  PROVE Spec => []Inv
<1>1. Init => Inv
  BY Initially
<1>2. Inv /\ [Next]_vars => Inv'
  <2>1. ASSUME Inv, Next  PROVE Inv'
    <3>1. CASE \E j \in Jobs : Step(j)
      BY <2>1, <3>1, StepSafe
    <3>2. CASE Start \/ EditConfig
      BY <2>1, <3>2, StartSafe DEF Start
    <3> QED  BY <2>1, <3>1, <3>2, OtherSafe DEF Next
  <2>2. ASSUME Inv, UNCHANGED vars  PROVE Inv'
    <3> USE <2>2 DEF Inv, vars, dbVars, procVars, tradeVars
    <3>1. DaysKept
      BY DEF DaysKept
    <3>2. TypeOK'
      BY DEF TypeOK
    <3>3. Kept' /\ Published'
      BY <3>1, Alike DEF Kept, Placed, Cached, Working
    <3>4. Traded'
      BY <3>1, Alike DEF Traded, Opened, Recovering, RecoveredAsPriced, LetOff
    <3> QED  BY <3>2, <3>3, <3>4
  <2> QED  BY <2>1, <2>2
<1> QED  BY <1>1, <1>2, PTL DEF Spec

\* The seeds' state keeps its types: whatever is published, cached and traded
\* on is a seed of the day it is kept under.
THEOREM SeedTypes == ASSUME DayAssumption  PROVE Spec => []TypeOK
<1>1. Inv => TypeOK
  BY DEF Inv
<1> QED  BY <1>1, Invariant, PTL

\* Whatever jobs interleave and however often the process restarts under
\* another master, an open trade is priced by what its day published.
THEOREM CommitmentsAreTrue == ASSUME DayAssumption  PROVE Spec => []CommittedPriced
<1>1. Inv => CommittedPriced
  BY DEF Inv, Traded, Opened, CommittedPriced, Sure, LetOff
<1> QED  BY <1>1, Invariant, PTL

\* Recovery computes every outcome again from the seed that priced it.
THEOREM RecoveryIsFaithful == ASSUME DayAssumption  PROVE Spec => []RecoveredAsPriced
<1>1. Inv => RecoveredAsPriced
  BY DEF Inv, Traded
<1> QED  BY <1>1, Invariant, PTL

-----------------------------------------------------------------------------
(* What has been revealed.  A day that everybody has been shown is over,   *)
(* and this process has activated a later one: rotate reveals the day it   *)
(* left once it has brought in the next one, and a boot begins later.      *)

Shown(d) == revealed[d] # NoSeed

Standing ==
    /\ \A d \in Days : Shown(d) => d < today
    /\ IF up THEN /\ active \in Keys /\ active.day <= today /\ active.day <= reached
                  /\ job["boot"].at = "idle"
                  /\ \A d \in Days : Shown(d) => d < reached
       ELSE /\ active = NoKey /\ reached = 0
            /\ \A j \in {"rotate", "reload"} : job[j].at = "idle"
    /\ \A j \in {"boot", "rotate", "reload"} : job[j].at # "idle" => job[j].key.day <= today
    /\ job["boot"].at # "idle" => \A d \in Days : Shown(d) => d < job["boot"].key.day
    /\ job["rotate"].at # "idle" => job["rotate"].ref.day <= job["rotate"].key.day
    /\ job["rotate"].at = "reveal" => job["rotate"].ref.day < reached

\* Days are counted, whoever holds them.
LEMMA DaysCount ==
    ASSUME DayAssumption, TypeOK
    PROVE  /\ today \in Nat /\ reached \in Nat /\ active.day \in Nat
           /\ \A d \in Days : d \in Nat /\ d > 0
           /\ \A j \in Jobs : job[j].key.day \in Nat /\ job[j].ref.day \in Nat
           /\ \A k \in Keys : k.day \in Nat /\ k # NoKey
<1>1. Days \subseteq Nat \ {0} /\ LastDay \in Nat
  BY DEF DayAssumption, Days
<1>2. NoKey.day = 0
  BY DEF NoKey
<1>3. \A k \in Keys : k.day \in Nat /\ k.day # 0 /\ k # NoKey
  <2>1. \A k \in Keys : k.day \in Days
    BY DEF Keys
  <2>2. \A k \in Keys : k.day \in Nat /\ k.day # 0
    BY <1>1, <2>1
  <2> QED  BY <1>2, <2>2
<1>4. \A s \in Held : s.day \in Nat
  <2>1. \A s \in Seeds : s.day \in Days
    BY DEF Seeds
  <2>2. NoSeed.day \in Nat
    BY DEF NoSeed
  <2> QED  BY <1>1, <2>1, <2>2 DEF Held
<1>5. /\ today \in Days /\ reached \in 0..LastDay /\ active \in Keys \union {NoKey}
      /\ \A j \in Jobs : job[j].key \in Keys \union {NoKey} /\ job[j].ref \in Held
  BY DEF TypeOK
<1> QED  BY <1>1, <1>2, <1>3, <1>4, <1>5

\* Jobs that go on under the same key, or end, while the clock may strike.
LEMMA StandsStill ==
    ASSUME DayAssumption, TypeOK, Standing, UNCHANGED <<up, active, reached, revealed>>,
           today' \in {today, today + 1},
           \A i \in Jobs : \/ job'[i].at = "idle"
                           \/ /\ job[i].at # "idle"
                              /\ job'[i].key = job[i].key /\ job'[i].ref = job[i].ref
                              /\ job'[i].at = "reveal" => job[i].at = "reveal"
    PROVE  Standing'
<1>1. {"boot", "rotate", "reload"} \subseteq Jobs
  BY DEF Jobs
<1>2. today <= today'
  BY DaysCount
<1>3. \A d \in Days : Shown(d)' <=> Shown(d)
  BY DEF Shown
<1>4. \A d \in Days : Shown(d)' => d < today'
  BY <1>2, <1>3, DaysCount DEF Standing
<1>5. IF up' THEN /\ active' \in Keys /\ active'.day <= today' /\ active'.day <= reached'
                  /\ job'["boot"].at = "idle"
                  /\ \A d \in Days : Shown(d)' => d < reached'
      ELSE /\ active' = NoKey /\ reached' = 0
           /\ \A j \in {"rotate", "reload"} : job'[j].at = "idle"
  <2>1. CASE up
    BY <1>1, <1>2, <1>3, <2>1, DaysCount DEF Standing
  <2>2. CASE ~up
    BY <1>1, <2>2 DEF Standing
  <2> QED  BY <2>1, <2>2
<1>6. ASSUME NEW j \in {"boot", "rotate", "reload"}, job'[j].at # "idle"
      PROVE  job'[j].key.day <= today'
  <2>1. job'[j].key = job[j].key /\ job[j].key.day <= today /\ job[j].key.day \in Nat
    BY <1>1, <1>6, DaysCount DEF Standing
  <2> QED  BY <1>2, <2>1, DaysCount
<1>7. /\ job'["boot"].at # "idle" => \A d \in Days : Shown(d)' => d < job'["boot"].key.day
      /\ job'["rotate"].at # "idle" => job'["rotate"].ref.day <= job'["rotate"].key.day
      /\ job'["rotate"].at = "reveal" => job'["rotate"].ref.day < reached'
  BY <1>1, <1>3 DEF Standing
<1> QED  BY <1>4, <1>5, <1>6, <1>7 DEF Standing

\* A call that begins is for today; rotate leaves a day that is not later.
LEMMA StartStands ==
    ASSUME DayAssumption, Inv, Standing,
           StartBoot \/ StartRotate \/ EditConfig \/ \E t \in todo : StartRecover(t)
    PROVE  Standing'
<1> USE DEF Inv
<1>1. UNCHANGED <<today, up, active, reached, revealed>>
  BY DEF StartBoot, StartRotate, EditConfig, StartRecover, dbVars, procVars
<1>2. /\ NoSeed \in Held /\ today <= today /\ today \in Nat /\ {"boot", "rotate", "reload", "recover"} = Jobs
      /\ Left \in Held /\ Left.day <= today
  <2>1. NoSeed \in Held /\ NoSeed.day = 0 /\ today \in Nat
    BY DaysCount DEF Held, NoSeed
  <2>2. CASE active = NoKey
    BY <2>1, <2>2 DEF Left, Jobs
  <2>3. CASE active # NoKey
    <3>1. active \in Keys /\ active.day <= today
      BY <2>3 DEF Standing
    <3>2. cache[active].seed \in Held /\ (cache[active].seed # NoSeed => cache[active].seed.day = active.day)
      BY <3>1 DEF TypeOK, Kept, Cached
    <3> QED  BY <2>1, <2>3, <3>1, <3>2 DEF Left, Jobs
  <2> QED  BY <2>2, <2>3
<1>3. [day |-> today, cfg |-> cfg] \in Keys
  BY DEF TypeOK, Keys
<1>4. CASE StartBoot
  <2>1. /\ job'["boot"].key.day = today /\ job'["boot"].at # "reveal"
        /\ \A i \in Jobs \ {"boot"} : job'[i] = job[i]
    BY <1>2, <1>3, <1>4, Begins DEF StartBoot
  <2>2. ~up
    BY <1>4 DEF StartBoot
  <2> QED  BY <1>1, <1>2, <2>1, <2>2 DEF Standing, Shown
<1>5. CASE StartRotate
  <2>1. /\ job'["rotate"].key.day = today /\ job'["rotate"].ref = Left /\ job'["rotate"].at # "reveal"
        /\ \A i \in Jobs \ {"rotate"} : job'[i] = job[i]
    BY <1>2, <1>3, <1>5, Begins DEF StartRotate
  <2>2. up
    BY <1>5 DEF StartRotate
  <2> QED  BY <1>1, <1>2, <2>1, <2>2 DEF Standing, Shown
<1>6. CASE EditConfig
  <2>1. [day |-> today, cfg |-> cfg + 1] \in Keys
    BY <1>6 DEF EditConfig, TypeOK, Keys, DayAssumption
  <2>2. /\ job'["reload"].key.day = today
        /\ \A i \in Jobs \ {"reload"} : job'[i] = job[i]
    BY <1>2, <1>6, <2>1, Begins DEF EditConfig
  <2>3. up
    BY <1>6 DEF EditConfig
  <2> QED  BY <1>1, <1>2, <2>2, <2>3 DEF Standing, Shown
<1>7. ASSUME NEW t \in todo, StartRecover(t)
      PROVE  Standing'
  <2>1. \A i \in Jobs \ {"recover"} : job'[i] = job[i]
    BY <1>7, <1>2 DEF StartRecover, Begun, TypeOK
  <2> QED  BY <1>1, <1>2, <2>1 DEF Standing, Shown
<1> QED  BY <1>4, <1>5, <1>6, <1>7

\* init: what is activated is not over for anybody, unless a later day was.
LEMMA FinishStands ==
    ASSUME DayAssumption, Inv, Standing, NEW j \in Jobs, FinishInit(j)
    PROVE  Standing'
<1> USE DEF Inv
<1>1. /\ j \in {"boot", "rotate", "reload"} /\ job[j].at = "ready" /\ job[j].key \in Keys
      /\ active' = job[j].key /\ reached' = Later(reached, job[j].key.day) /\ up' = TRUE
      /\ UNCHANGED <<today, revealed>>
  BY DEF FinishInit, Activated, Kept, Placed, dbVars
<1>2. job[j].key.day <= today /\ job[j].key.day \in Nat /\ reached \in Nat /\ today \in Nat
  BY <1>1, DaysCount DEF Standing
<1>3. reached <= reached' /\ job[j].key.day <= reached' /\ reached' \in Nat
  BY <1>1, <1>2 DEF Later
<1>4. \A i \in Jobs \ {j} : job'[i] = job[i]
  BY DEF FinishInit, GoesOn, TypeOK
<1>5. \/ job'[j].at = "idle"
      \/ /\ j = "rotate" /\ job[j].ref.day \notin {0, job[j].key.day}
         /\ job'[j].key = job[j].key /\ job'[j].ref = job[j].ref
  BY DEF FinishInit, GoesOn, TypeOK, Idle
<1>6. \A d \in Days : Shown(d) => d < reached'
  <2>1. CASE up
    BY <1>3, <2>1, DaysCount DEF Standing
  <2>2. CASE ~up
    <3>1. j = "boot"
      BY <1>1, <2>2 DEF Standing
    <3> QED  BY <1>1, <1>3, <3>1, DaysCount DEF Standing
  <2> QED  BY <2>1, <2>2
<1>7. job'["boot"].at = "idle"
  <2>1. CASE j = "boot"
    BY <1>5, <2>1
  <2>2. CASE j # "boot"
    BY <1>1, <1>4, <2>2 DEF Standing, Jobs
  <2> QED  BY <2>1, <2>2
<1>8. \A d \in Days : Shown(d)' <=> Shown(d)
  BY <1>1 DEF Shown
<1>9. \A i \in {"rotate", "reload"} : job'[i].at # "idle" =>
          job[i].at # "idle" /\ job'[i].key = job[i].key /\ job'[i].ref = job[i].ref
  BY <1>1, <1>4, <1>5 DEF Jobs
<1>10. /\ \A i \in {"boot", "rotate", "reload"} : job'[i].at # "idle" => job'[i].key.day <= today
       /\ job'["rotate"].at # "idle" => job'["rotate"].ref.day <= job'["rotate"].key.day
  BY <1>7, <1>9 DEF Standing
<1>11. job'["rotate"].at = "reveal" => job'["rotate"].ref.day < reached'
  <2>1. CASE j = "rotate"
    <3>1. job["rotate"].ref.day <= job["rotate"].key.day /\ job["rotate"].ref.day \in Nat
      BY <1>1, <2>1, DaysCount DEF Standing, Jobs
    <3> QED  BY <1>2, <1>3, <1>5, <2>1, <3>1
  <2>2. CASE j # "rotate"
    <3>1. job'["rotate"] = job["rotate"] /\ job["rotate"].ref.day \in Nat
      BY <1>4, <2>2, DaysCount DEF Jobs
    <3> QED  BY <1>2, <1>3, <3>1 DEF Standing
  <2> QED  BY <2>1, <2>2
<1> QED  BY <1>1, <1>2, <1>3, <1>6, <1>7, <1>8, <1>10, <1>11 DEF Standing

LEMMA RevealStands ==
    ASSUME DayAssumption, Inv, Standing, Reveal
    PROVE  Standing'
<1> USE DEF Inv
<1> DEFINE left == job["rotate"].ref
<1>1. /\ job["rotate"].at = "reveal" /\ job' = [job EXCEPT !["rotate"] = Idle]
      /\ UNCHANGED <<today, up, active, reached>>
      /\ \A d \in Days : revealed'[d] # revealed[d] => d = left.day /\ d < today
  BY DEF Reveal, procVars, TypeOK
<1>2. job'["rotate"].at = "idle" /\ \A i \in Jobs \ {"rotate"} : job'[i] = job[i]
  BY <1>1 DEF TypeOK, Jobs, Idle
<1>3. up /\ left.day < reached
  BY <1>1 DEF Standing
<1>4. \A d \in Days : Shown(d)' => d < today /\ d < reached
  BY <1>1, <1>3 DEF Standing, Shown
<1>5. job'["boot"].at = "idle" /\ job'["reload"] = job["reload"]
  BY <1>2, <1>3 DEF Standing, Jobs
<1> QED  BY <1>1, <1>2, <1>3, <1>4, <1>5 DEF Standing

LEMMA OtherStands ==
    ASSUME DayAssumption, Inv, Standing,
           \/ Trade \/ FinishRecover \/ Midnight \/ Restart
           \/ \E j \in Jobs : Throw(j) \/ Build(j) \/ Check(j) \/ Ensure(j)
           \/ \E t \in open : Settle(t)
           \/ \E d \in Days : ForceRotation(d)
           \/ UNCHANGED vars
    PROVE  Standing'
<1> USE DEF Inv
<1>1. CASE Restart
  <2>1. /\ up' = FALSE /\ active' = NoKey /\ reached' = 0 /\ UNCHANGED <<today, revealed>>
        /\ \A j \in Jobs : job'[j].at = "idle"
    BY <1>1 DEF Restart, dbVars, Idle
  <2> QED  BY <2>1 DEF Standing, Shown, Jobs
<1>2. ASSUME NEW j \in Jobs, Build(j) \/ Check(j) \/ Ensure(j)
      PROVE  Standing'
  <2>1. /\ UNCHANGED <<today, up, active, reached, revealed>>
        /\ job[j].at # "idle" /\ \E state \in {"check", "ensure", "ready"} : \E seed : job' = GoesOn(j, state, seed)
    BY <1>2 DEF Build, Check, Ensure, dbVars, procVars
  <2>2. /\ \A i \in Jobs \ {j} : job'[i] = job[i]
        /\ job'[j].key = job[j].key /\ job'[j].ref = job[j].ref /\ job'[j].at # "reveal"
    BY <2>1 DEF GoesOn, TypeOK
  <2> QED  BY <2>1, <2>2, StandsStill
<1>3. CASE \/ Trade \/ FinishRecover \/ Midnight \/ UNCHANGED vars
           \/ \E j \in Jobs : Throw(j)
           \/ \E t \in open : Settle(t)
           \/ \E d \in Days : ForceRotation(d)
  <2>1. /\ UNCHANGED <<up, active, reached, revealed>> /\ today' \in {today, today + 1}
        /\ job' = job \/ \E j \in Jobs : job' = [job EXCEPT ![j] = Idle]
    BY <1>3 DEF Trade, FinishRecover, Midnight, Throw, Settle, ForceRotation, vars, dbVars, procVars, Jobs
  <2>2. \A i \in Jobs : job'[i] = job[i] \/ job'[i].at = "idle"
    BY <2>1 DEF TypeOK, Idle
  <2> QED  BY <2>1, <2>2, StandsStill
<1> QED  BY <1>1, <1>2, <1>3

\* TradedUnrevealed: a trade is never priced by a seed everybody has been shown,
\* unless a slower job put an older day back after a later one was active.
THEOREM TradesAreUnrevealed == ASSUME DayAssumption  PROVE Spec => TradedUnrevealed
<1>1. Init => Standing
  BY DEF Init, Standing, Shown, Jobs, Idle
<1>2. ASSUME Inv, Standing, [Next]_vars
      PROVE  Standing'
  <2>1. CASE Start \/ EditConfig
    BY <1>2, <2>1, StartStands DEF Start
  <2>2. CASE Reveal
    BY <1>2, <2>2, RevealStands
  <2>3. ASSUME NEW j \in Jobs, Step(j)
        PROVE  Standing'
    BY <1>2, <2>3, FinishStands, OtherStands DEF Step
  <2> QED  BY <1>2, <2>1, <2>2, <2>3, OtherStands DEF Next
<1>3. ASSUME Inv, Standing, [Next]_vars, NEW t \in open' \ open
      PROVE  revealed[t.key.day] = NoSeed \/ active.day < reached
  <2>1. Trade
    BY <1>3 DEF Next, Start, Step, Reveal, FinishRecover, Midnight, Restart, EditConfig, Build, Check,
                Ensure, FinishInit, StartBoot, StartRotate, StartRecover, Throw, Settle, ForceRotation,
                vars, tradeVars
  <2>2. t.key = active /\ up
    BY <1>3, <2>1 DEF Trade
  <2>3. active.day \in Days
    BY <1>3, <2>2 DEF Standing, Keys
  <2> QED  BY <1>3, <2>2, <2>3 DEF Standing, Shown
<1>4. Inv /\ Standing /\ [Next]_vars => [\A t \in open' \ open :
          revealed[t.key.day] = NoSeed \/ active.day < reached]_vars
  BY <1>3
<1>5. Inv /\ Standing /\ [Next]_vars => Standing'
  BY <1>2
<1> QED  BY <1>1, <1>4, <1>5, Invariant, PTL DEF Spec, TradedUnrevealed
=============================================================================
