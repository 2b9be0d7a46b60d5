------------------------------ MODULE DaySeeds ------------------------------
(***************************************************************************)
(* The daily seeds of one brand (daycontext.ts): every day's trades are    *)
(* priced by a seed whose hash is published when the day is first built    *)
(* and which is revealed once the day is over.  The seed is derived from   *)
(* the process's master seed, the day and a version that an owner may      *)
(* bump, and never stored.                                                 *)
(*                                                                         *)
(* Four jobs of one process build contexts and await the database between  *)
(* their steps: the boot, the rotation timer, the reload after a config    *)
(* edit, and the recovery of trades that were open at a restart.           *)
(*                                                                         *)
(* Abstracted: a seed is what it is derived from and its hash is itself;   *)
(* curves and outcomes, which are functions of the seed and the config;    *)
(* eviction, since no bound here fills a cache of 16; two context objects  *)
(* of one key and one seed are one.                                        *)
(***************************************************************************)
EXTENDS Integers, FiniteSets

CONSTANTS
    LastDay, LastConfig, LastMaster, MaxVersion,   \* bounds
    MaxUpsets,     \* bound: restarts and calls that throw, together
    MaxOpen        \* bound: contexts with trades open on them

ASSUME DayAssumption ==
    /\ LastDay \in Nat \ {0} /\ LastConfig \in Nat \ {0} /\ LastMaster \in Nat \ {0}
    /\ MaxVersion \in Nat /\ MaxUpsets \in Nat /\ MaxOpen \in Nat

Days == 1..LastDay
Seeds == [master : 1..LastMaster, day : Days, version : 0..MaxVersion]
Keys == [day : Days, cfg : 1..LastConfig]
Jobs == {"boot", "rotate", "reload", "recover"}

NoSeed == [master |-> 0, day |-> 0, version |-> 0]
NoKey == [day |-> 0, cfg |-> 0]
NoContext == [seed |-> NoSeed, ready |-> FALSE]
Idle == [at |-> "idle", key |-> NoKey, seed |-> NoSeed, ref |-> NoSeed]

VARIABLES
    today, cfg,        \* the clock's day, and the config in force
    published,         \* game_days.server_seed_hash of each day
    revealed,          \* game_days.server_seed
    version,           \* seed_overrides
    master, legacy,    \* this process's master seed, and the one before or 0
    up,                \* the boot's context is built
    cache, active,     \* SeedManager.cache and activeKey
    job,               \* where each job awaits, the context it holds, and the
                       \* seed it leaves (rotate) or should find (recover)
    open,              \* the key and seed behind each open trade
    todo,              \* those still to recover
    repriced,          \* those recovered on another seed
    raced,             \* days bumped when they were built or published
    missed,            \* days left with nobody about to reveal them
    reached,           \* the latest day this process activated
    upsets

dbVars == <<published, revealed, version>>
procVars == <<master, legacy, up, cache, active>>
tradeVars == <<open, todo, repriced>>
vars == <<today, cfg, dbVars, procVars, job, tradeVars, raced, missed, reached, upsets>>

Later(a, b) == IF a > b THEN a ELSE b
SeedOf(m, day, ver) == [master |-> m, day |-> day, version |-> ver]

(* The job goes on to another state with a seed in its hands.              *)
GoesOn(j, state, seed) ==
    [job EXCEPT ![j] = [at |-> state, key |-> job[j].key, seed |-> seed, ref |-> job[j].ref]]

-----------------------------------------------------------------------------
(* contextFor, in steps; every one but the last ends at an await.          *)

(* The cache decides where the job starts.                                 *)
Begun(j, key, ref) ==
    [job EXCEPT ![j] = [at |-> IF cache[key].seed = NoSeed THEN "version"
                               ELSE IF cache[key].ready THEN "ready" ELSE "check",
                        key |-> key, seed |-> cache[key].seed, ref |-> ref]]

(* getSeedVersion, then build: the fresh context is cached.                *)
Build(j) ==
    /\ job[j].at = "version"
    /\ LET day == job[j].key.day
           seed == SeedOf(master, day, version[day])
       IN /\ job' = GoesOn(j, "check", seed)
          /\ cache' = [cache EXCEPT ![job[j].key] = [seed |-> seed, ready |-> FALSE]]
    /\ UNCHANGED <<today, cfg, dbVars, master, legacy, up, active, tradeVars, raced, missed,
                   reached, upsets>>

\* Mutant: the fresh context stands, whatever was published.
AdoptNever(seed) == seed

\* Mutant: what is published is taken, though nothing may be.
AdoptAnything(seed) == published[seed.day]

(* adoptPublishedContext.                                                  *)
Adopted(seed) ==
    LET old == SeedOf(legacy, seed.day, seed.version)
    IN IF legacy # 0 /\ published[seed.day] = old THEN old ELSE seed

Check(j) ==
    /\ job[j].at = "check"
    /\ LET seed == job[j].seed
           adopted == Adopted(seed)
       IN /\ job' = GoesOn(j, "ensure", adopted)
          /\ cache' = IF adopted = seed THEN cache
                      ELSE [cache EXCEPT ![job[j].key] = [seed |-> adopted, ready |-> FALSE]]
    /\ UNCHANGED <<today, cfg, dbVars, master, legacy, up, active, tradeVars, raced, missed,
                   reached, upsets>>

(* fn_ensure_game_day: a day's hash is published once.                     *)
Ensure(j) ==
    /\ job[j].at = "ensure" /\ job' = GoesOn(j, "ready", job[j].seed)
    /\ published' = IF published[job[j].key.day] # NoSeed THEN published
                    ELSE [published EXCEPT ![job[j].key.day] = job[j].seed]
    /\ UNCHANGED <<today, cfg, revealed, version, procVars, tradeVars, raced, missed,
                   reached, upsets>>

(* The context in the job's hands gets its row's id.                       *)
Readied(j) ==
    IF cache[job[j].key].seed = job[j].seed
    THEN [cache EXCEPT ![job[j].key] = [seed |-> job[j].seed, ready |-> TRUE]] ELSE cache

-----------------------------------------------------------------------------
(* init and rotate.                                                        *)

Leaving(d) == job["rotate"].ref.day = d /\ job["rotate"].key.day # d

(* The days a job leaves or brings in.                                     *)
Hands(j) == {job[j].key.day, job[j].ref.day} \ {0}

\* Mutant: a new day's context is built and not made the active one.
StayOn(j) == IF active # NoKey /\ active.day # job[j].key.day THEN active ELSE job[j].key

(* init makes the key it was called for the active one, whatever the clock *)
(* and other jobs did meanwhile.                                           *)
Activated(j) == job[j].key

FinishInit(j) ==
    /\ j \in {"boot", "rotate", "reload"} /\ job[j].at = "ready"
    /\ cache' = Readied(j)
    /\ active' = Activated(j)
    /\ reached' = Later(reached, active'.day)
    /\ missed' = (missed \union (IF active = NoKey \/ Leaving(active.day) THEN {} ELSE {active.day}))
                    \ {active'.day}
    /\ up' = TRUE
    /\ job' = IF j = "rotate" /\ job[j].ref.day \notin {0, job[j].key.day}
              THEN GoesOn(j, "reveal", job[j].seed) ELSE [job EXCEPT ![j] = Idle]
    /\ UNCHANGED <<today, cfg, dbVars, master, legacy, tradeVars, raced, upsets>>

(* rotate remembers the day it leaves, before anything is awaited.         *)
Left == IF active = NoKey THEN NoSeed ELSE cache[active].seed

StartBoot ==
    /\ ~up /\ job["boot"] = Idle
    /\ job' = Begun("boot", [day |-> today, cfg |-> cfg], NoSeed)
    /\ UNCHANGED <<today, cfg, dbVars, procVars, tradeVars, raced, missed, reached, upsets>>

(* The timer of server.ts, armed after recovery.                           *)
StartRotate ==
    /\ up /\ todo = {} /\ job["recover"] = Idle /\ job["rotate"] = Idle
    /\ job' = Begun("rotate", [day |-> today, cfg |-> cfg], Left)
    /\ UNCHANGED <<today, cfg, dbVars, procVars, tradeVars, raced, missed, reached, upsets>>

(* config.subscribe: an economy edit reloads the context.                  *)
EditConfig ==
    /\ up /\ job["reload"] = Idle
    /\ cfg < LastConfig /\ cfg' = cfg + 1
    /\ job' = Begun("reload", [day |-> today, cfg |-> cfg + 1], NoSeed)
    /\ UNCHANGED <<today, dbVars, procVars, tradeVars, raced, missed, reached, upsets>>

\* Mutant: the seed of the day that begins is offered for the one that ended.
OfferActive(left) == {cache[active].seed}

(* What rotate offers: the seed it left, then the legacy master's.         *)
Offered(left) ==
    {left} \union (IF legacy = 0 THEN {} ELSE {SeedOf(legacy, left.day, left.version)})

(* fn_reveal_game_day: a past day's seed, if it is what was published.     *)
Reveal ==
    /\ job["rotate"].at = "reveal"
    /\ LET left == job["rotate"].ref
       IN revealed' = IF /\ revealed[left.day] = NoSeed /\ left.day < today
                         /\ published[left.day] \in Offered(left)
                      THEN [revealed EXCEPT ![left.day] = published[left.day]] ELSE revealed
    /\ job' = [job EXCEPT !["rotate"] = Idle]
    /\ UNCHANGED <<today, cfg, published, version, procVars, tradeVars, raced, missed, reached,
                   upsets>>

-----------------------------------------------------------------------------
(* Trades and their recovery.                                              *)

(* getActive; the trade is priced by that context.                         *)
Trade ==
    /\ up /\ cache[active].ready /\ Cardinality(open) < MaxOpen
    /\ open' = open \union {[key |-> active, seed |-> cache[active].seed]}
    /\ UNCHANGED <<today, cfg, dbVars, procVars, job, todo, repriced, raced, missed, reached,
                   upsets>>

Settle(t) ==
    /\ up /\ t \in open \ todo /\ open' = open \ {t}
    /\ UNCHANGED <<today, cfg, dbVars, procVars, job, todo, repriced, raced, missed, reached,
                   upsets>>

\* Mutant: a trade is recovered under the day of the restart.
KeyOfToday(t) == [t.key EXCEPT !.day = today]

(* recover reads a row's day and config version.                           *)
KeyOf(t) == t.key

StartRecover(t) ==
    /\ up /\ t \in todo /\ job["recover"] = Idle
    /\ job' = Begun("recover", KeyOf(t), t.seed)
    /\ todo' = todo \ {t}
    /\ UNCHANGED <<today, cfg, dbVars, procVars, open, repriced, raced, missed, reached,
                   upsets>>

(* The outcome is computed again from the seed the context has.            *)
FinishRecover ==
    /\ job["recover"].at = "ready" /\ job' = [job EXCEPT !["recover"] = Idle]
    /\ cache' = Readied("recover")
    /\ repriced' = IF job["recover"].seed = job["recover"].ref THEN repriced
                   ELSE repriced \union {job["recover"].ref}
    /\ UNCHANGED <<today, cfg, dbVars, master, legacy, up, active, open, todo, raced, missed,
                   reached, upsets>>

-----------------------------------------------------------------------------
(* The world around.                                                       *)

Midnight ==
    /\ today < LastDay /\ today' = today + 1
    /\ UNCHANGED <<cfg, dbVars, procVars, job, tradeVars, raced, missed, reached, upsets>>

(* fn_admin_rotate_seed: for today or a later day, not revealed.           *)
ForceRotation(d) ==
    /\ d >= today /\ revealed[d] = NoSeed
    /\ version[d] < MaxVersion /\ version' = [version EXCEPT ![d] = @ + 1]
    /\ raced' = IF published[d] # NoSeed \/ \E key \in Keys : key.day = d /\ cache[key].seed # NoSeed
                THEN raced \union {d} ELSE raced
    /\ UNCHANGED <<today, cfg, published, revealed, procVars, job, tradeVars, missed, reached,
                   upsets>>

(* A database call throws, perhaps after it did its work, and takes its    *)
(* job with it.                                                            *)
Throw(j) ==
    /\ upsets < MaxUpsets /\ upsets' = upsets + 1
    /\ job[j] # Idle /\ job' = [job EXCEPT ![j] = Idle]
    /\ missed' = missed \union (Hands(j) \ {active.day})
    /\ UNCHANGED <<today, cfg, dbVars, procVars, tradeVars, raced, reached>>

(* A deploy or a crash; the operator may have changed the master seed, and *)
(* may have left the old one as the legacy.                                *)
Restart ==
    /\ upsets < MaxUpsets /\ upsets' = upsets + 1
    /\ \/ UNCHANGED <<master, legacy>>
       \/ master < LastMaster /\ master' = master + 1 /\ legacy' \in {0, master}
    /\ up' = FALSE /\ active' = NoKey /\ reached' = 0
    /\ cache' = [key \in Keys \union {NoKey} |-> NoContext]
    /\ job' = [j \in Jobs |-> Idle]
    /\ todo' = open
    /\ missed' = missed \union (({active.day} \union UNION {Hands(j) : j \in Jobs}) \ {0})
    /\ UNCHANGED <<today, cfg, dbVars, open, repriced, raced>>

-----------------------------------------------------------------------------
Init ==
    /\ today = 1 /\ cfg = 1
    /\ published = [d \in Days |-> NoSeed]
    /\ revealed = [d \in Days |-> NoSeed]
    /\ version = [d \in Days |-> 0]
    /\ master = 1 /\ legacy = 0 /\ up = FALSE
    /\ cache = [key \in Keys \union {NoKey} |-> NoContext]
    /\ active = NoKey
    /\ job = [j \in Jobs |-> Idle]
    /\ open = {} /\ todo = {} /\ repriced = {} /\ raced = {} /\ missed = {}
    /\ reached = 0 /\ upsets = 0

Step(j) == Build(j) \/ Check(j) \/ Ensure(j) \/ FinishInit(j)
Start == StartBoot \/ StartRotate \/ \E t \in todo : StartRecover(t)

Next ==
    \/ Start \/ EditConfig \/ Reveal \/ Trade \/ FinishRecover \/ Midnight \/ Restart
    \/ \E j \in Jobs : Step(j) \/ Throw(j)
    \/ \E t \in open : Settle(t)
    \/ \E d \in Days : ForceRotation(d)

Spec == Init /\ [][Next]_vars

(* Calls are answered, a boot is retried, recovery goes on and the timer   *)
(* fires every minute.  Nobody has to trade, edit or restart.              *)
FairSpec ==
    /\ Spec
    /\ \A j \in Jobs : WF_vars(Step(j))
    /\ WF_vars(Start) /\ WF_vars(Reveal) /\ WF_vars(FinishRecover)

-----------------------------------------------------------------------------
(* Properties.                                                             *)

Held == Seeds \union {NoSeed}
Opens == [key : Keys, seed : Seeds]

\* Types: in particular nothing is priced by, or published as, no seed.
TypeOK ==
    /\ today \in Days /\ cfg \in 1..LastConfig
    /\ published \in [Days -> Held] /\ revealed \in [Days -> Held]
    /\ version \in [Days -> 0..MaxVersion]
    /\ master \in 1..LastMaster /\ legacy \in 0..LastMaster /\ up \in BOOLEAN
    /\ cache \in [Keys \union {NoKey} -> [seed : Held, ready : BOOLEAN]]
    /\ active \in Keys \union {NoKey}
    /\ job \in [Jobs -> [at : {"idle", "version", "check", "ensure", "ready", "reveal"},
                         key : Keys \union {NoKey}, seed : Held, ref : Held]]
    /\ \A j \in Jobs : job[j].at \in {"check", "ensure", "ready"} => job[j].seed \in Seeds
    /\ open \subseteq Opens /\ todo \subseteq Opens /\ repriced \subseteq Seeds
    /\ raced \subseteq Days /\ missed \subseteq Days /\ reached \in 0..LastDay
    /\ upsets \in 0..MaxUpsets

Orphaned(d) == published[d] # NoSeed /\ published[d].master \notin {master, legacy}

\* daycontext.ts:180 "no day whose commitment lies": every open trade is priced
\* by the seed whose hash its day published, through restarts and master
\* rotations; unless the day was bumped after it was built, or its master is
\* neither the current one nor the legacy one (rotated twice, or not kept).
CommittedPriced ==
    \A t \in open :
        t.seed = published[t.key.day] \/ t.key.day \in raced \/ Orphaned(t.key.day)

\* daycontext.ts:78: an open trade is recovered on the very seed that priced
\* it, whatever was configured or rotated meanwhile; with the same exceptions.
RecoveredAsPriced == \A s \in repriced : s.day \in raced \/ Orphaned(s.day)

\* No trade is priced by a seed that everybody has been shown; unless a reload
\* that straddled midnight has just put the activated day back.
TradedUnrevealed ==
    [][\A t \in open' \ open :
          revealed[t.key.day] = NoSeed \/ active.day < reached]_vars

\* docs/02: every day that was traded is revealed once it is over; unless the
\* day was left by a reload or a restart over midnight or its reveal threw,
\* which nothing tries again, or its seed cannot be derived any more.
DaysRevealed ==
    []<>(\A d \in 1..(today - 1) :
            published[d] = NoSeed \/ revealed[d] # NoSeed \/ d \in missed \union raced \/ Orphaned(d))

\* The newest day and config become the active ones, and if a slower job
\* brings back older ones, become so again.
ActiveCatchesUp == []<>(active = [day |-> today, cfg |-> cfg])
=============================================================================
