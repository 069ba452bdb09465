----------------------------- MODULE IntelSync -----------------------------
(***************************************************************************)
(* Threat intelligence on its way to the correlation engine: intel_sync    *)
(* publishes the feeds in Redis (app/intel_sync/sync.py) while the ingest  *)
(* server polls for a new generation and rebuilds its snapshot             *)
(* (app/ingest_server/src/correlation/threat_intel.rs).  Every Redis       *)
(* command is a step of its own.                                           *)
(***************************************************************************)
EXTENDS Naturals, FiniteSets

CONSTANTS
    Feeds,         \* feed -> the contents its source has had, one set per sync run
    FeedType,      \* feed -> "ip" or "string"
    MaxPollFails   \* bound: commands of the poller that fail

VARIABLES
    redis,     \* [members |-> feed -> items, meta |-> feed -> type, names, generation]
    writer,    \* the sync run: [at, run, left, feed, published, ok]
    poll,      \* the poller: [at, generation, left, reading, sets, untyped]
    intel,     \* the snapshot rules are evaluated with
    untyped,   \* history: the sets of the snapshot whose type could not be read
    last_generation,
    poll_fails

snapshot == <<intel, untyped>>
intel_vars == <<redis, writer, poll, snapshot, last_generation, poll_fails>>

NoGeneration == 0
Runs == 1 .. Cardinality(DOMAIN Feeds[CHOOSE f \in DOMAIN Feeds : TRUE])
NoFeed == <<>>
Absent == "none"
Resting == [at |-> "rest", generation |-> NoGeneration, left |-> {}, reading |-> <<>>, sets |-> <<>>,
            untyped |-> {}]

IntelInit ==
    /\ redis = [members |-> [f \in DOMAIN Feeds |-> {}], meta |-> [f \in DOMAIN Feeds |-> Absent],
                names |-> {}, generation |-> NoGeneration]
    /\ writer = [at |-> "rest", run |-> 0, left |-> {}, feed |-> NoFeed, published |-> {}, ok |-> TRUE]
    /\ poll = Resting /\ intel = <<>> /\ untyped = {} /\ last_generation = NoGeneration /\ poll_fails = 0

\* A later moment: every run has been published and read.
IntelSettled ==
    LET all == [f \in DOMAIN Feeds |-> Feeds[f][Cardinality(Runs)]]
    IN /\ redis = [members |-> all, meta |-> FeedType, names |-> DOMAIN Feeds, generation |-> 1]
       /\ writer = [at |-> "rest", run |-> Cardinality(Runs), left |-> {}, feed |-> NoFeed,
                    published |-> DOMAIN Feeds, ok |-> TRUE]
       /\ poll = Resting /\ last_generation = 1 /\ poll_fails = 0
       /\ intel = [f \in DOMAIN Feeds |-> [type |-> FeedType[f], items |-> all[f]]] /\ untyped = {}

-----------------------------------------------------------------------------
(* run_sync and _write_redis. *)

\* The feeds that could be fetched are written; with none there is nothing to do.
StartSync(fetched) ==
    /\ writer.at = "rest" /\ writer.run + 1 \in Runs /\ fetched # {}
    /\ writer' = [at |-> "members", run |-> writer.run + 1, left |-> fetched,
                  feed |-> NoFeed, published |-> fetched, ok |-> FALSE]
    /\ UNCHANGED <<redis, poll, snapshot, last_generation, poll_fails>>

\* The members are prepared under another key and renamed over the old ones.
WriteMembers(f) ==
    /\ writer.at = "members" /\ f \in writer.left
    /\ redis' = [redis EXCEPT !.members[f] = Feeds[f][writer.run]]
    /\ writer' = [writer EXCEPT !.at = "meta", !.feed = f]
    /\ UNCHANGED <<poll, snapshot, last_generation, poll_fails>>

WriteMeta ==
    /\ writer.at = "meta"
    /\ redis' = [redis EXCEPT !.meta[writer.feed] = FeedType[writer.feed]]
    /\ writer' = [writer EXCEPT !.left = @ \ {writer.feed}, !.feed = NoFeed,
                                !.at = IF writer.left = {writer.feed} THEN "clear" ELSE "members"]
    /\ UNCHANGED <<poll, snapshot, last_generation, poll_fails>>

ClearNames ==
    /\ writer.at = "clear"
    /\ redis' = [redis EXCEPT !.names = {}]
    /\ writer' = [writer EXCEPT !.at = "names"]
    /\ UNCHANGED <<poll, snapshot, last_generation, poll_fails>>

WriteNames ==
    /\ writer.at = "names"
    /\ redis' = [redis EXCEPT !.names = writer.published]
    /\ writer' = [writer EXCEPT !.at = "incr"]
    /\ UNCHANGED <<poll, snapshot, last_generation, poll_fails>>

BumpGeneration ==
    /\ writer.at = "incr"
    /\ redis' = [redis EXCEPT !.generation = @ + 1]
    /\ writer' = [writer EXCEPT !.at = "rest", !.ok = TRUE]
    /\ UNCHANGED <<poll, snapshot, last_generation, poll_fails>>

\* A command fails and the run is given up where it is.
SyncFails ==
    /\ writer.at # "rest"
    /\ writer' = [writer EXCEPT !.at = "rest", !.feed = NoFeed]
    /\ UNCHANGED <<redis, poll, snapshot, last_generation, poll_fails>>

-----------------------------------------------------------------------------
(* poll_once. *)

\* GET intel:generation: unchanged, and the poll is over.
ReadGeneration ==
    /\ poll.at = "rest"
    /\ redis.generation = NoGeneration \/ redis.generation # last_generation
    /\ poll' = [Resting EXCEPT !.at = "names", !.generation = redis.generation]
    /\ UNCHANGED <<redis, writer, snapshot, last_generation, poll_fails>>

ReadNames ==
    /\ poll.at = "names"
    /\ poll' = [poll EXCEPT !.at = "sets", !.left = redis.names]
    /\ UNCHANGED <<redis, writer, snapshot, last_generation, poll_fails>>

\* HGET type.  A set without one passes for a set of strings.
ReadType(f) ==
    /\ poll.at = "sets" /\ f \in poll.left
    /\ poll' = [poll EXCEPT !.at = "items",
                            !.reading = <<f, IF redis.meta[f] = Absent THEN "string" ELSE redis.meta[f]>>]
    /\ UNCHANGED <<redis, writer, snapshot, last_generation, poll_fails>>

\* So does one whose type could not be read: the error is swallowed.
TypeFails(f) ==
    /\ poll.at = "sets" /\ f \in poll.left /\ poll_fails < MaxPollFails
    /\ poll' = [poll EXCEPT !.at = "items", !.reading = <<f, "string">>, !.untyped = @ \cup {f}]
    /\ poll_fails' = poll_fails + 1
    /\ UNCHANGED <<redis, writer, snapshot, last_generation>>

ReadSet ==
    /\ poll.at = "items"
    /\ LET f == poll.reading[1]
       IN poll' = [poll EXCEPT !.at = "sets", !.left = @ \ {f}, !.reading = <<>>,
                     !.sets = [g \in DOMAIN @ \cup {f} |->
                                 IF g = f THEN [type |-> poll.reading[2], items |-> redis.members[f]]
                                 ELSE @[g]]]
    /\ UNCHANGED <<redis, writer, snapshot, last_generation, poll_fails>>

\* Mutant: the generation is the one Redis has by now.
RemembersNewest == redis.generation

\* The generation the poll began with.
Remembered == poll.generation

\* The snapshot is replaced as a whole; without a generation the next poll
\* reads everything again.
SwapSnapshot ==
    /\ poll.at = "sets" /\ poll.left = {}
    /\ intel' = poll.sets /\ untyped' = poll.untyped
    /\ last_generation' = IF poll.generation = NoGeneration THEN last_generation ELSE Remembered
    /\ poll' = Resting
    /\ UNCHANGED <<redis, writer, poll_fails>>

PollFails ==
    /\ poll.at # "rest" /\ poll_fails < MaxPollFails
    /\ poll' = Resting /\ poll_fails' = poll_fails + 1
    /\ UNCHANGED <<redis, writer, snapshot, last_generation>>

-----------------------------------------------------------------------------

PollStep == \/ ReadGeneration \/ ReadNames \/ (\E f \in DOMAIN Feeds : ReadType(f)) \/ ReadSet
            \/ SwapSnapshot

IntelNext ==
    \/ \E fetched \in SUBSET DOMAIN Feeds : StartSync(fetched)
    \/ \E f \in DOMAIN Feeds : WriteMembers(f)
    \/ WriteMeta \/ ClearNames \/ WriteNames \/ BumpGeneration \/ SyncFails
    \/ PollStep \/ PollFails \/ \E f \in DOMAIN Feeds : TypeFails(f)

\* What Redis says the sets are.
Published == [f \in redis.names |-> [type |-> IF f \in untyped THEN "string" ELSE redis.meta[f],
                                     items |-> redis.members[f]]]

\* "Redis is the shared source of truth ... intel:generation - INCR'd once per
\* successful sync run": once the last run has succeeded, the evaluator ends up
\* with what Redis holds and keeps it, whatever its polls read half way through
\* a run and whichever of them failed.  One thing is lost for good: the type of
\* a set that could not be read by the poll the snapshot comes from, which
\* passes for a set of strings until the next run (poll_once, HGET).
IntelConverges == <>[](writer.at = "rest" /\ writer.ok => intel = Published)
=============================================================================
