------------------------------ MODULE SqlGuard ------------------------------
(***************************************************************************)
(* The statement guard: the library preloaded into database clients        *)
(* (agent/sql_guard/src/lib.rs), which asks the agent about every statement *)
(* before it forwards it, and the agent's policy service                   *)
(* (agent/agent/src/sql_policy.rs), whose workers hand the requests to the *)
(* main loop through a bounded queue and wait for its verdict.             *)
(*                                                                         *)
(* A call is known by its thread and number.  Its kind is "query" for the  *)
(* functions that take the text of a statement, "execute" for those that   *)
(* run a prepared one, "pg_prepare" and "mysql_prepare".  A text is what   *)
(* the policy tells apart: its hash, its class, and whether it is within   *)
(* the size a request may have; empty statements are left out.  A key is a *)
(* connection and the name of a statement, so it belongs to one thread.    *)
(***************************************************************************)
EXTENDS Integers, Sequences, FiniteSets

CONSTANTS Threads,        \* client threads
          Workers,        \* policy workers of the agent
          QueueCapacity,  \* requests that may wait for the main loop
          MaxPrepared     \* prepared statements the guard remembers

VARIABLES world,      \* what the environment does and how things are configured
          guard,      \* per thread: number, pc, text and answer of its call
          prepared,   \* the texts of prepared statements the guard remembers
          database,   \* the texts the database has prepared
          astray,     \* history: keys whose last text only one of the two has
          backlog,    \* requests written to connections no worker has taken
          worker,     \* per worker: the request it waits for and the reply
          requests,   \* requests waiting for the main loop
          judged,     \* the requests the main loop has answered, with its verdicts
          forwarded   \* the guarded calls forwarded: the text the database runs,
                      \* was there a verdict, was the statement astray?

databaseVars == <<database, astray>>
guardVars == <<guard, prepared, databaseVars, backlog, worker, requests, judged, forwarded>>

Texts == [hash : Nat, class : Nat, fits : BOOLEAN]
CallKinds == {"query", "execute", "pg_prepare", "mysql_prepare"}
NoText == [hash |-> 0, class |-> 0, fits |-> FALSE]
NoCall == <<>>
IdleWorker == [call |-> NoCall, reply |-> "none"]

GuardInit ==
  /\ guard = [t \in Threads |-> [next |-> 1, pc |-> "idle", text |-> NoText, answer |-> "none"]]
  /\ prepared = <<>> /\ database = <<>> /\ astray = {}
  /\ backlog = <<>> /\ requests = <<>>
  /\ worker = [w \in Workers |-> IdleWorker]
  /\ judged = {} /\ forwarded = {}

CallOf(t) == <<t, guard[t].next>>
Current(t) == world.calls[t][guard[t].next]

----------------------------------------------------------------------------
(* The guard. *)

RememberFirst(key, text) ==
  IF text.fits /\ key \notin DOMAIN prepared
  THEN prepared' = [k \in DOMAIN prepared \cup {key} |-> IF k = key THEN text ELSE prepared[k]]
  ELSE UNCHANGED prepared

(* A text too long to be asked about is not remembered, and what was       *)
(* remembered for the key stays; a full cache is emptied first.            *)
Remember(key, text) ==
  LET kept == IF Cardinality(DOMAIN prepared) >= MaxPrepared THEN {} ELSE DOMAIN prepared
  IN IF text.fits
     THEN prepared' = [k \in kept \cup {key} |-> IF k = key THEN text ELSE prepared[k]]
     ELSE UNCHANGED prepared

Lookup(key) == IF key \in DOMAIN prepared THEN prepared[key] ELSE NoText

(* Without a verdict the configuration decides. *)
policy_decision(answer) ==
  IF answer \in {"allow", "block"} THEN answer
  ELSE IF world.failClosed THEN "block" ELSE "allow"

Returned(t) ==
  guard' = [guard EXCEPT ![t] = [next |-> @.next + 1, pc |-> "idle", text |-> NoText,
                                 answer |-> "none"]]

(* What the database runs when the call of a thread is forwarded. *)
Prepared(key) == IF key \in DOMAIN database THEN database[key] ELSE NoText
Runs(t) == IF Current(t).kind = "execute" THEN Prepared(Current(t).key) ELSE Current(t).text
Astray(t) == Current(t).kind = "execute" /\ Current(t).key \in astray

Conclude(t, answer) ==
  IF policy_decision(answer) = "block"
  THEN Returned(t) /\ UNCHANGED forwarded
  ELSE /\ guard' = [guard EXCEPT ![t].pc = "forwarding", ![t].answer = "none"]
       /\ forwarded' = forwarded \cup {[call |-> CallOf(t), text |-> Runs(t),
                                        answered |-> answer = "allow", astray |-> Astray(t)]}

(* A missing text, a text of no or too great a length and a socket nobody  *)
(* listens on all end without a verdict.                                   *)
request_verdict(t, text, up) ==
  IF text.fits /\ up
  THEN /\ guard' = [guard EXCEPT ![t].pc = "asking", ![t].text = text]
       /\ backlog' = Append(backlog, [call |-> CallOf(t), text |-> text])
       /\ UNCHANGED forwarded
  ELSE Conclude(t, "error") /\ UNCHANGED backlog

Query(t, up) ==
  /\ guard[t].pc = "idle" /\ guard[t].next <= Len(world.calls[t])
  /\ Current(t).kind = "query"
  /\ request_verdict(t, Current(t).text, up)
  /\ UNCHANGED <<prepared, databaseVars, worker, requests, judged>>

Execute(t, up) ==
  /\ guard[t].pc = "idle" /\ guard[t].next <= Len(world.calls[t])
  /\ Current(t).kind = "execute"
  /\ request_verdict(t, Lookup(Current(t).key), up)
  /\ UNCHANGED <<prepared, databaseVars, worker, requests, judged>>

(* The database takes the text, or refuses it and keeps what it has.  In   *)
(* the first case the guard has the same text unless that is too long, in  *)
(* the second it must not have remembered it.                              *)
Takes(key, text) ==
  /\ database' = [k \in DOMAIN database \cup {key} |-> IF k = key THEN text ELSE database[k]]
  /\ astray' = IF text.fits THEN astray \ {key} ELSE astray \cup {key}
RefusesRemembered(key, text) ==
  /\ astray' = IF text.fits THEN astray \cup {key} ELSE astray
  /\ UNCHANGED database

(* PQprepare remembers the text and then forwards. *)
PgPrepare(t) ==
  /\ guard[t].pc = "idle" /\ guard[t].next <= Len(world.calls[t])
  /\ Current(t).kind = "pg_prepare"
  /\ Remember(Current(t).key, Current(t).text)
  /\ guard' = [guard EXCEPT ![t].pc = "forwarding"]
  /\ UNCHANGED <<databaseVars, backlog, worker, requests, judged, forwarded>>

(* It does not look at the result. *)
PgPrepared(t) ==
  /\ guard[t].pc = "forwarding" /\ Current(t).kind = "pg_prepare"
  /\ Returned(t)
  /\ \/ Takes(Current(t).key, Current(t).text)
     \/ RefusesRemembered(Current(t).key, Current(t).text)
  /\ UNCHANGED <<prepared, backlog, worker, requests, judged, forwarded>>

(* mysql_stmt_prepare forwards and then remembers, if that went well. *)
MysqlPrepare(t) ==
  /\ guard[t].pc = "idle" /\ guard[t].next <= Len(world.calls[t])
  /\ Current(t).kind = "mysql_prepare"
  /\ guard' = [guard EXCEPT ![t].next = @ + 1]
  /\ \/ Takes(Current(t).key, Current(t).text) /\ Remember(Current(t).key, Current(t).text)
     \/ UNCHANGED <<prepared, databaseVars>>
  /\ UNCHANGED <<backlog, worker, requests, judged, forwarded>>

Answered(t) ==
  /\ guard[t].pc = "asking" /\ guard[t].answer # "none"
  /\ Conclude(t, guard[t].answer)
  /\ UNCHANGED <<prepared, databaseVars, backlog, worker, requests, judged>>

(* The read fails: the agent is gone, or the socket's deadline has passed  *)
(* where the host supports one.                                            *)
ReadFails(t, up) ==
  /\ guard[t].pc = "asking" /\ guard[t].answer = "none"
  /\ ~up \/ world.deadlines
  /\ Conclude(t, "error")
  /\ UNCHANGED <<prepared, databaseVars, backlog, worker, requests, judged>>

Return(t) ==
  /\ guard[t].pc = "forwarding" /\ Current(t).kind # "pg_prepare"
  /\ Returned(t)
  /\ UNCHANGED <<prepared, databaseVars, backlog, worker, requests, judged, forwarded>>

----------------------------------------------------------------------------
(* The service. *)

(* Whatever is written to, or closes, the connection of a call reaches the *)
(* thread if that still waits for it.                                      *)
write_response(call, answer) ==
  guard' = IF guard[call[1]].next = call[2] /\ guard[call[1]].pc = "asking"
           THEN [guard EXCEPT ![call[1]].answer = answer] ELSE guard

RefusesSilently(w) ==
  IF Len(requests) < QueueCapacity
  THEN /\ requests' = Append(requests, Head(backlog))
       /\ worker' = [worker EXCEPT ![w].call = Head(backlog).call]
       /\ UNCHANGED guard
  ELSE UNCHANGED <<requests, worker, guard>>

(* A full queue is answered with an error. *)
handle_stream(w) ==
  IF Len(requests) < QueueCapacity
  THEN /\ requests' = Append(requests, Head(backlog))
       /\ worker' = [worker EXCEPT ![w].call = Head(backlog).call]
       /\ UNCHANGED guard
  ELSE write_response(Head(backlog).call, "error") /\ UNCHANGED <<requests, worker>>

(* A thread that gave up has closed its connection; its request was        *)
(* written before and is served all the same.                              *)
TakeStream(w) ==
  /\ worker[w].call = NoCall /\ backlog # <<>>
  /\ handle_stream(w)
  /\ backlog' = Tail(backlog)
  /\ UNCHANGED <<prepared, databaseVars, judged, forwarded>>

WorkerReplies(w) ==
  /\ worker[w].call # NoCall /\ worker[w].reply # "none"
  /\ write_response(worker[w].call, worker[w].reply)
  /\ worker' = [worker EXCEPT ![w] = IdleWorker]
  /\ UNCHANGED <<prepared, databaseVars, backlog, requests, judged, forwarded>>

(* No verdict in time: the connection is closed without one; the request   *)
(* stays in the queue.                                                     *)
WorkerTimesOut(w) ==
  /\ worker[w].call # NoCall /\ worker[w].reply = "none"
  /\ write_response(worker[w].call, "closed")
  /\ worker' = [worker EXCEPT ![w] = IdleWorker]
  /\ UNCHANGED <<prepared, databaseVars, backlog, requests, judged, forwarded>>

(* The main loop answers the first request; the reply is lost if its       *)
(* worker has given up.                                                    *)
reply(block) ==
  LET call == Head(requests).call
  IN /\ judged' = judged \cup {[call |-> call, text |-> Head(requests).text, blocked |-> block]}
     /\ worker' = [w \in Workers |->
                     IF worker[w].call = call
                     THEN [worker[w] EXCEPT !.reply = IF block THEN "block" ELSE "allow"]
                     ELSE worker[w]]
     /\ requests' = Tail(requests)
     /\ UNCHANGED <<guard, prepared, databaseVars, backlog, forwarded>>

GuardNext(t, up) ==
  Query(t, up) \/ Execute(t, up) \/ PgPrepare(t) \/ PgPrepared(t) \/ MysqlPrepare(t)
    \/ Answered(t) \/ ReadFails(t, up) \/ Return(t)
ServiceNext(w) == TakeStream(w) \/ WorkerReplies(w) \/ WorkerTimesOut(w)

----------------------------------------------------------------------------
(* Properties. *)

(* A statement reaches the database on a verdict only if the main loop let *)
(* that very text pass, for that very call; a guard that fails closed      *)
(* forwards no other.  The text is the one the database runs, also for a   *)
(* prepared statement, unless the last prepare of its name was refused by  *)
(* the database or too long for the guard: PQprepare remembers the text    *)
(* and ignores the result, and a long text leaves the old one remembered.  *)
ForwardedIsJudged ==
  \A f \in forwarded :
    (f.answered \/ world.failClosed) =>
      \E j \in judged : j.call = f.call /\ ~j.blocked /\ (j.text = f.text \/ f.astray)
=============================================================================
