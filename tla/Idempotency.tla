---------------------------- MODULE Idempotency -----------------------------
(***************************************************************************)
(* internal/api/idempotency.go: the middleware around every mutating POST, *)
(* run by concurrent calls, with the clients' retries, their disconnects   *)
(* (which cancel the call's context) and the expiry of records.            *)
(*                                                                         *)
(* A call is one HTTP request.  What its handler did is named by the call  *)
(* itself: `effects` holds the calls whose handler's write was committed,  *)
(* and a response body is the call that produced it.                       *)
(***************************************************************************)
EXTENDS Naturals, FiniteSets

CONSTANTS
    Calls,          \* bound: the requests ever sent
    Keys,           \* Idempotency-Key values
    Bodies,         \* request bodies, told apart by their hash
    NoKey,          \* a missing or blank header
    NoRecord,       \* no row under this key
    Purges          \* TRUE: a TTL index deletes expired records (MongoDB)

ASSUME KeysAssumption   == NoKey \notin Keys
ASSUME PurgesAssumption == Purges \in BOOLEAN

Records == [body : Bodies, response : Calls, expired : BOOLEAN]

ASSUME NoRecordAssumption == NoRecord \notin Records

VARIABLES
    record,         \* the idempotency_keys table
    call,           \* each request: where it is and what it was answered
    effects         \* the calls whose handler committed its write

vars == <<record, call, effects>>

Unsent == [pc |-> "unsent", key |-> NoKey, body |-> NoRecord, answer |-> "none", of |-> NoRecord,
           known |-> FALSE]

At(c, pc) == call[c].pc = pc

Running == {c \in Calls : call[c].pc \in {"lookup", "handle", "put"}}

Live(k)    == record[k] # NoRecord /\ ~ record[k].expired

Answered(c, answer, of) ==
    call' = [call EXCEPT ![c].pc = "done", ![c].answer = answer, ![c].of = of]

-----------------------------------------------------------------------------
Init ==
    /\ record = [k \in Keys |-> NoRecord]
    /\ call = [c \in Calls |-> Unsent]
    /\ effects = {}

(* A client sends a request, its first or a retry; `known` notes, for the  *)
(* properties, that a live record of its key was there already, and that   *)
(* it did not expire on the request's way to its lookup.                   *)
Send(c, k, b) ==
    /\ At(c, "unsent")
    /\ call' = [call EXCEPT ![c].pc = "lookup", ![c].key = k, ![c].body = b,
                            ![c].known = k # NoKey /\ Live(k)]
    /\ UNCHANGED <<record, effects>>

MissingKey(c) ==
    /\ At(c, "lookup") /\ call[c].key = NoKey
    /\ Answered(c, "badRequest", NoRecord)
    /\ UNCHANGED <<record, effects>>

\* Mutant: the body hash is not compared.
LookupAnyBody(c) ==
    LET k == call[c].key
    IN  /\ At(c, "lookup") /\ k # NoKey
        /\ \/ ~ Live(k) /\ call' = [call EXCEPT ![c].pc = "handle"]
           \/ Live(k) /\ Answered(c, "replayed", record[k].response)
        /\ UNCHANGED <<record, effects>>

\* Mutant: a record under another body is taken for a fresh key.
LookupMismatchIsFresh(c) ==
    LET k == call[c].key
    IN  /\ At(c, "lookup") /\ k # NoKey
        /\ \/ /\ ~ (Live(k) /\ record[k].body = call[c].body)
              /\ call' = [call EXCEPT ![c].pc = "handle"]
           \/ /\ Live(k) /\ record[k].body = call[c].body
              /\ Answered(c, "replayed", record[k].response)
        /\ UNCHANGED <<record, effects>>

(* GetIdempotencyRecord and the switch on what it returned: a fresh or     *)
(* expired key goes on, another body conflicts, the same one replays.      *)
Lookup(c) ==
    LET k == call[c].key
    IN  /\ At(c, "lookup") /\ k # NoKey
        /\ \/ ~ Live(k) /\ call' = [call EXCEPT ![c].pc = "handle"]
           \/ Live(k) /\ record[k].body # call[c].body /\ Answered(c, "conflict", NoRecord)
           \/ Live(k) /\ record[k].body = call[c].body /\ Answered(c, "replayed", record[k].response)
           \/ Answered(c, "error", NoRecord)                \* the lookup itself failed
        /\ UNCHANGED <<record, effects>>

\* Mutant: every answer is kept for replay, refusals and failures too.
HandleKeepingAll(c) ==
    /\ At(c, "handle")
    /\ \/ /\ effects' = effects \cup {c}
          /\ call' = [call EXCEPT ![c].pc = "put", ![c].answer = "success", ![c].of = c]
       \/ /\ call' = [call EXCEPT ![c].pc = "put", ![c].answer = "refused", ![c].of = c]
          /\ UNCHANGED effects
    /\ UNCHANGED record

(* The wrapped handler, whose response goes to the client as it is written: *)
(* success, a refusal or a 5xx.  Either of the last two may hide a write    *)
(* that was committed: cancelSubscription compares the actor afterwards.    *)
Handle(c) ==
    /\ At(c, "handle")
    /\ \/ /\ effects' = effects \cup {c}
          /\ call' = [call EXCEPT ![c].pc = "put", ![c].answer = "success", ![c].of = c]
       \/ /\ \E answer \in {"refused", "error"} : Answered(c, answer, NoRecord)
          /\ effects' \in {effects, effects \cup {c}}
    /\ UNCHANGED record

NewRecord(c) == [body |-> call[c].body, response |-> c, expired |-> FALSE]

\* Mutant: the record is written with an upsert instead of an insert.
PutOverwriting(c) ==
    /\ At(c, "put")
    /\ record' = [record EXCEPT ![call[c].key] = NewRecord(c)]
    /\ call' = [call EXCEPT ![c].pc = "done"]
    /\ UNCHANGED effects

(* PutIdempotencyRecord inserts, and its error is dropped: the key may be  *)
(* taken, by a record that is live or expired, or the insert may fail.     *)
Put(c) ==
    LET k == call[c].key
    IN  /\ At(c, "put")
        /\ \/ record[k] = NoRecord /\ record' = [record EXCEPT ![k] = NewRecord(c)]
           \/ UNCHANGED record
        /\ call' = [call EXCEPT ![c].pc = "done"]
        /\ UNCHANGED effects

(* The client gives up or the process dies.  A cancelled context fails the *)
(* statement it is in; a commit may just have gone through.                *)
Cut(c) ==
    /\ c \in Running
    /\ Answered(c, "cut", NoRecord)
    /\ \/ UNCHANGED effects
       \/ At(c, "handle") /\ effects' = effects \cup {c}
    /\ UNCHANGED record

(* The TTL (24 h) runs out, whatever is in flight: a call on its way to    *)
(* its lookup will find the key expired.                                   *)
Expire(k) ==
    /\ Live(k)
    /\ record' = [record EXCEPT ![k].expired = TRUE]
    /\ call' = [c \in Calls |-> IF At(c, "lookup") /\ call[c].key = k
                                  THEN [call[c] EXCEPT !.known = FALSE] ELSE call[c]]
    /\ UNCHANGED effects

Purge(k) ==
    /\ Purges
    /\ record[k] # NoRecord /\ record[k].expired
    /\ record' = [record EXCEPT ![k] = NoRecord]
    /\ UNCHANGED <<call, effects>>

Next ==
    \/ \E c \in Calls :
          \/ \E k \in Keys \cup {NoKey}, b \in Bodies : Send(c, k, b)
          \/ MissingKey(c) \/ Lookup(c) \/ Handle(c) \/ Put(c) \/ Cut(c)
    \/ \E k \in Keys : Expire(k) \/ Purge(k)

Spec == Init /\ [][Next]_vars

-----------------------------------------------------------------------------
CallRows ==
    [pc : {"unsent", "lookup", "handle", "put", "done"}, key : Keys \cup {NoKey},
     body : Bodies \cup {NoRecord}, of : Calls \cup {NoRecord}, known : BOOLEAN,
     answer : {"none", "success", "refused", "error", "cut", "badRequest", "conflict", "replayed"}]

(* Well-formed state: and every record, live or expired, was left by a     *)
(* request that succeeded under its key and body.                          *)
TypeOK ==
    /\ record \in [Keys -> Records \cup {NoRecord}]
    /\ call \in [Calls -> CallRows]
    /\ effects \subseteq Calls
    /\ \A k \in Keys : record[k] # NoRecord =>
          LET d == call[record[k].response]
          IN  d.key = k /\ d.body = record[k].body /\ d.answer = "success"

(* A replay is the response to an earlier request with the same key and    *)
(* the same body whose write was really committed, whatever calls raced    *)
(* for the key, were refused, cut off or outlived an expired record.       *)
ReplaysAreGenuine ==
    \A c \in Calls : call[c].answer = "replayed" =>
       LET d == call[c].of
       IN  /\ d \in effects
           /\ call[d].answer = "success"
           /\ call[d].key = call[c].key /\ call[d].body = call[c].body

(* A request sent while its key has a live record, one that does not run   *)
(* out on the way to the lookup, writes nothing, whatever else is in       *)
(* flight under the key, is cut off or purged: it gets a replay or is      *)
(* refused.                                                                *)
KnownKeysWriteNothing ==
    \A c \in Calls : call[c].known => c \notin effects

(* A live record is final: nothing replaces it until it expires, so all    *)
(* the replays of one key carry one response.                              *)
LiveRecordsAreFinal ==
    [][\A k \in Keys : Live(k) => /\ record'[k] # NoRecord
                                  /\ record'[k].response = record[k].response
                                  /\ record'[k].body = record[k].body]_vars

(* The comment on the race for a fresh key, "second write loses            *)
(* harmlessly": the call whose insert finds the key taken has committed no *)
(* second write under it.                                                  *)
SecondWriteLosesHarmlessly ==
    [][\A c \in Calls :
          At(c, "put") /\ Live(call[c].key) /\ call'[c].pc = "done" => c \notin effects]_vars

=============================================================================
