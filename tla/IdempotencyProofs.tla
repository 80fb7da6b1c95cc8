------------------------- MODULE IdempotencyProofs --------------------------
(***************************************************************************)
(* Proofs about Idempotency, for any number of calls, keys and bodies and  *)
(* with or without a purge of expired records.                             *)
(***************************************************************************)
EXTENDS Idempotency, TLAPS

(* Before its handler has run, a call has written nothing.                 *)
FreshCalls ==
    \A c \in Calls : call[c].pc \in {"unsent", "lookup", "handle"} =>
       c \notin effects /\ call[c].answer = "none"

(* A call past the lookup carries a key and a body.  One about to be       *)
(* recorded succeeded, its write committed.                                *)
CallsOnTheWay ==
    \A c \in Calls :
       /\ call[c].pc \in {"handle", "put"} => call[c].key \in Keys /\ call[c].body \in Bodies
       /\ At(c, "lookup") => call[c].body \in Bodies
       /\ At(c, "put") => c \in effects /\ call[c].answer = "success"

(* A record was left by a call that is over and whose write committed.     *)
RecordsOfTheDone ==
    \A k \in Keys : record[k] # NoRecord =>
       At(record[k].response, "done") /\ record[k].response \in effects

(* What a replay repeats is over as well, so its answer is final.          *)
ReplaysOfTheDone ==
    \A c \in Calls : call[c].answer = "replayed" => At(c, "done") /\ At(call[c].of, "done")

(* A call that met a live record when it was sent still meets it at its    *)
(* lookup, unless that expires first and the call is no longer one of      *)
(* these: it never reaches its handler.                                    *)
KnownCallsStop ==
    \A c \in Calls : call[c].known =>
       /\ call[c].pc \notin {"unsent", "handle", "put"}
       /\ At(c, "lookup") => call[c].key \in Keys /\ Live(call[c].key)

(* The inductive invariant.                                                *)
IdempotencyInv ==
    /\ TypeOK
    /\ FreshCalls
    /\ CallsOnTheWay
    /\ RecordsOfTheDone
    /\ ReplaysOfTheDone
    /\ ReplaysAreGenuine
    /\ KnownCallsStop
    /\ KnownKeysWriteNothing

-----------------------------------------------------------------------------
(* What the type invariant says of one call and of one record.             *)
LEMMA TypesOfRows ==
    ASSUME TypeOK
    PROVE  /\ \A c \in Calls : call[c] \in CallRows
           /\ \A k \in Keys : record[k] # NoRecord =>
                 /\ record[k] \in Records
                 /\ record[k].response \in Calls
                 /\ call[record[k].response].key = k
                 /\ call[record[k].response].body = record[k].body
                 /\ call[record[k].response].answer = "success"
BY DEF TypeOK, Records

(* What the row a call c moves to must satisfy, given what is written.     *)
GoodRow(c, row) ==
    /\ row \in CallRows
    /\ row.pc \in {"unsent", "lookup", "handle"} => c \notin effects' /\ row.answer = "none"
    /\ row.pc \in {"handle", "put"} => row.key \in Keys /\ row.body \in Bodies
    /\ row.pc = "lookup" => row.body \in Bodies
    /\ row.pc = "put" => c \in effects' /\ row.answer = "success"
    /\ row.answer = "replayed" =>
          /\ row.pc = "done" /\ row.of \in effects /\ At(row.of, "done")
          /\ call[row.of].answer = "success"
          /\ call[row.of].key = row.key /\ call[row.of].body = row.body
    /\ row.known =>
          /\ row.pc \notin {"unsent", "handle", "put"} /\ c \notin effects'
          /\ row.pc = "lookup" => row.key \in Keys /\ Live(row.key)

(* A step of one call that leaves the records alone keeps the invariant    *)
(* when the row it moves to is good.                                       *)
LEMMA StepOfCall ==
    ASSUME IdempotencyInv, NEW c \in Calls, NEW row, GoodRow(c, row),
           ~ At(c, "done"), call' = [call EXCEPT ![c] = row],
           record' = record, effects' \in {effects, effects \cup {c}}
    PROVE  IdempotencyInv'
<1>1. /\ call' \in [Calls -> CallRows] /\ call'[c] = row
      /\ \A d \in Calls : d # c => call'[d] = call[d]
  BY DEF IdempotencyInv, TypeOK, GoodRow
<1>2. \A k \in Keys : record[k] # NoRecord => record[k].response # c
  BY DEF IdempotencyInv, RecordsOfTheDone
<1>3. \A d \in Calls : call[d].answer = "replayed" => call[d].of \in effects /\ call[d].of # c
  BY DEF IdempotencyInv, ReplaysOfTheDone, ReplaysAreGenuine
<1>4. /\ effects \subseteq Calls /\ effects \subseteq effects'
      /\ \A d \in Calls : d # c => (d \in effects' <=> d \in effects)
  BY DEF IdempotencyInv, TypeOK
<1>5. TypeOK'
  BY <1>1, <1>2, <1>4, TypesOfRows DEF IdempotencyInv, TypeOK
<1>6. FreshCalls' /\ CallsOnTheWay'
  BY <1>1, <1>4 DEF IdempotencyInv, FreshCalls, CallsOnTheWay, At, GoodRow
<1>7. RecordsOfTheDone'
  BY <1>1, <1>2, <1>4, TypesOfRows DEF IdempotencyInv, RecordsOfTheDone, At
<1>8. ReplaysOfTheDone' /\ ReplaysAreGenuine'
  <2> SUFFICES ASSUME NEW d \in Calls, call'[d].answer = "replayed"
               PROVE  /\ At(d, "done")' /\ At(call[d].of, "done")'
                      /\ call'[d].of \in effects'
                      /\ call'[call'[d].of].answer = "success"
                      /\ call'[call'[d].of].key = call'[d].key
                      /\ call'[call'[d].of].body = call'[d].body
    BY DEF ReplaysOfTheDone, ReplaysAreGenuine, At
  <2>1. CASE d = c
    BY <1>1, <1>4, <2>1 DEF GoodRow, At
  <2>2. CASE d # c
    BY <1>1, <1>3, <1>4, <2>2 DEF IdempotencyInv, ReplaysOfTheDone, ReplaysAreGenuine, At
  <2> QED BY <2>1, <2>2
<1>9. KnownCallsStop' /\ KnownKeysWriteNothing'
  BY <1>1, <1>4 DEF IdempotencyInv, KnownCallsStop, KnownKeysWriteNothing, At, Live, GoodRow
<1> QED BY <1>5, <1>6, <1>7, <1>8, <1>9 DEF IdempotencyInv

LEMMA InitHolds == Init => IdempotencyInv
<1> SUFFICES ASSUME Init PROVE IdempotencyInv
  OBVIOUS
<1>1. TypeOK
  BY DEF Init, TypeOK, Unsent, CallRows
<1>2. \A c \in Calls : call[c] = Unsent
  BY DEF Init
<1> QED
  BY <1>1, <1>2 DEF Init, Unsent, At, IdempotencyInv, FreshCalls, CallsOnTheWay, RecordsOfTheDone,
     ReplaysOfTheDone, ReplaysAreGenuine, KnownCallsStop, KnownKeysWriteNothing

LEMMA SendKeeps ==
    ASSUME IdempotencyInv, NEW c \in Calls, NEW k \in Keys \cup {NoKey}, NEW b \in Bodies, Send(c, k, b)
    PROVE  IdempotencyInv'
<1>1. PICK knows \in BOOLEAN : knows = (k # NoKey /\ Live(k))
  BY DEF Live
<1>2. At(c, "unsent") /\ record' = record /\ effects' = effects
  BY DEF Send
<1>3. PICK row : /\ row = [call[c] EXCEPT !.pc = "lookup", !.key = k, !.body = b, !.known = knows]
                 /\ call' = [call EXCEPT ![c] = row]
  BY <1>1, Zenon DEF Send
<1>4. knows => k \in Keys /\ Live(k)
  BY <1>1
<1>5. call[c] \in CallRows
  BY TypesOfRows DEF IdempotencyInv
<1>6. /\ row \in CallRows
      /\ row.pc = "lookup" /\ row.key = k /\ row.body = b /\ row.known = knows
      /\ row.answer = call[c].answer
  BY <1>3, <1>5 DEF CallRows
<1>7. c \notin effects /\ call[c].answer = "none" /\ ~ At(c, "done")
  BY <1>2 DEF IdempotencyInv, FreshCalls, At
<1>8. GoodRow(c, row)
  BY <1>2, <1>4, <1>6, <1>7 DEF GoodRow
<1> QED BY <1>2, <1>3, <1>7, <1>8, StepOfCall

(* A call that is over and answered by something else than a replay moves  *)
(* to a good row, whatever it has written, if it met no record when sent   *)
(* or wrote nothing.                                                       *)
LEMMA AnswerKeeps ==
    ASSUME IdempotencyInv, NEW c \in Calls, ~ At(c, "done"), record' = record,
           effects' \in {effects, effects \cup {c}},
           NEW answer \in {"refused", "error", "cut", "badRequest", "conflict"},
           Answered(c, answer, NoRecord),
           call[c].known => c \notin effects'
    PROVE  IdempotencyInv'
<1>1. PICK row : /\ row = [call[c] EXCEPT !.pc = "done", !.answer = answer, !.of = NoRecord]
                 /\ call' = [call EXCEPT ![c] = row]
  BY Zenon DEF Answered
<1>2. call[c] \in CallRows
  BY TypesOfRows DEF IdempotencyInv
<1>3. /\ row \in CallRows
      /\ row.pc = "done" /\ row.known = call[c].known
      /\ row.answer = answer /\ row.of = NoRecord
  BY <1>1, <1>2 DEF CallRows
<1>4. GoodRow(c, row)
  BY <1>3 DEF GoodRow
<1> QED BY <1>1, <1>4, StepOfCall

LEMMA MissingKeyKeeps ==
    ASSUME IdempotencyInv, NEW c \in Calls, MissingKey(c)
    PROVE  IdempotencyInv'
<1>1. At(c, "lookup") /\ record' = record /\ effects' = effects /\ Answered(c, "badRequest", NoRecord)
  BY DEF MissingKey
<1>2. c \notin effects
  BY <1>1 DEF IdempotencyInv, FreshCalls, At
<1> QED BY <1>1, <1>2, AnswerKeeps DEF At

LEMMA LookupKeeps ==
    ASSUME IdempotencyInv, NEW c \in Calls, Lookup(c)
    PROVE  IdempotencyInv'
<1> DEFINE k == call[c].key
<1>1. At(c, "lookup") /\ record' = record /\ effects' = effects /\ ~ At(c, "done")
  BY DEF Lookup, At
<1>2. call[c] \in CallRows /\ c \notin effects /\ call[c].answer = "none" /\ call[c].body \in Bodies
  BY <1>1, TypesOfRows DEF IdempotencyInv, FreshCalls, CallsOnTheWay, At
<1>3. k \in Keys
  BY <1>2 DEF Lookup, CallRows
<1>4. CASE ~ Live(k) /\ call' = [call EXCEPT ![c].pc = "handle"]
  <2>1. PICK row : row = [call[c] EXCEPT !.pc = "handle"] /\ call' = [call EXCEPT ![c] = row]
    BY <1>4, Zenon
  <2>2. /\ row \in CallRows /\ row.pc = "handle" /\ row.key = k /\ row.body = call[c].body
        /\ row.known = call[c].known /\ row.answer = "none"
    BY <1>2, <2>1 DEF CallRows
  <2>3. ~ call[c].known
    BY <1>1, <1>4 DEF IdempotencyInv, KnownCallsStop
  <2>4. GoodRow(c, row)
    BY <1>1, <1>2, <1>3, <2>2, <2>3 DEF GoodRow
  <2> QED BY <1>1, <2>1, <2>4, StepOfCall
<1>5. CASE Live(k) /\ record[k].body = call[c].body /\ Answered(c, "replayed", record[k].response)
  <2> DEFINE d == record[k].response
  <2>1. /\ d \in Calls /\ d \in effects /\ At(d, "done")
        /\ call[d].key = k /\ call[d].body = call[c].body /\ call[d].answer = "success"
    BY <1>3, <1>5, TypesOfRows DEF IdempotencyInv, RecordsOfTheDone, Live
  <2>2. PICK row : /\ row = [call[c] EXCEPT !.pc = "done", !.answer = "replayed", !.of = d]
                   /\ call' = [call EXCEPT ![c] = row]
    BY <1>5, Zenon DEF Answered
  <2>3. /\ row \in CallRows /\ row.pc = "done" /\ row.key = k /\ row.body = call[c].body
        /\ row.known = call[c].known /\ row.answer = "replayed" /\ row.of = d
    BY <1>2, <2>1, <2>2 DEF CallRows
  <2>4. GoodRow(c, row)
    BY <1>1, <1>2, <2>1, <2>3 DEF GoodRow
  <2> QED BY <1>1, <2>2, <2>4, StepOfCall
<1>6. CASE Answered(c, "conflict", NoRecord) \/ Answered(c, "error", NoRecord)
  BY <1>1, <1>2, <1>6, AnswerKeeps
<1> QED BY <1>4, <1>5, <1>6 DEF Lookup

LEMMA HandleKeeps ==
    ASSUME IdempotencyInv, NEW c \in Calls, Handle(c)
    PROVE  IdempotencyInv'
<1>1. At(c, "handle") /\ record' = record /\ ~ At(c, "done")
  BY DEF Handle, At
<1>2. call[c] \in CallRows /\ call[c].key \in Keys /\ call[c].body \in Bodies
  BY <1>1, TypesOfRows DEF IdempotencyInv, CallsOnTheWay, At
<1>3. ~ call[c].known /\ c \notin effects
  BY <1>1 DEF IdempotencyInv, FreshCalls, KnownCallsStop, At
<1>4. CASE /\ effects' = effects \cup {c}
           /\ call' = [call EXCEPT ![c].pc = "put", ![c].answer = "success", ![c].of = c]
  <2>1. PICK row : /\ row = [call[c] EXCEPT !.pc = "put", !.answer = "success", !.of = c]
                   /\ call' = [call EXCEPT ![c] = row]
    BY <1>4, Zenon
  <2>2. /\ row \in CallRows /\ row.pc = "put" /\ row.key = call[c].key /\ row.body = call[c].body
        /\ row.known = call[c].known /\ row.answer = "success"
    BY <1>2, <2>1 DEF CallRows
  <2>3. GoodRow(c, row)
    BY <1>2, <1>3, <1>4, <2>2 DEF GoodRow
  <2> QED BY <1>1, <1>4, <2>1, <2>3, StepOfCall
<1>5. CASE /\ \E answer \in {"refused", "error"} : Answered(c, answer, NoRecord)
           /\ effects' \in {effects, effects \cup {c}}
  BY <1>1, <1>3, <1>5, AnswerKeeps
<1> QED BY <1>4, <1>5 DEF Handle

LEMMA CutKeeps ==
    ASSUME IdempotencyInv, NEW c \in Calls, Cut(c)
    PROVE  IdempotencyInv'
<1>1. /\ ~ At(c, "done") /\ Answered(c, "cut", NoRecord) /\ record' = record
      /\ \/ effects' = effects
         \/ At(c, "handle") /\ effects' = effects \cup {c}
  BY DEF Cut, Running, At
<1>2. call[c].known => c \notin effects'
  BY <1>1 DEF IdempotencyInv, KnownCallsStop, KnownKeysWriteNothing, At
<1> QED BY <1>1, <1>2, AnswerKeeps

(* A call whose handler succeeded ends, leaving a record or not.           *)
LEMMA PutKeeps ==
    ASSUME IdempotencyInv, NEW c \in Calls, Put(c)
    PROVE  IdempotencyInv'
<1> DEFINE k == call[c].key
<1>1. /\ At(c, "put") /\ effects' = effects /\ call' = [call EXCEPT ![c].pc = "done"]
      /\ \/ record[k] = NoRecord /\ record' = [record EXCEPT ![k] = NewRecord(c)]
         \/ record' = record
  BY DEF Put
<1>2. /\ call[c] \in CallRows /\ k \in Keys /\ call[c].body \in Bodies
      /\ c \in effects /\ call[c].answer = "success" /\ ~ call[c].known
  BY <1>1, TypesOfRows DEF IdempotencyInv, CallsOnTheWay, KnownCallsStop, At
<1>3. PICK row : row = [call[c] EXCEPT !.pc = "done"] /\ call' = [call EXCEPT ![c] = row]
  BY <1>1, Zenon
<1>4. /\ row \in CallRows /\ row.pc = "done" /\ row.key = k /\ row.body = call[c].body
      /\ row.known = call[c].known /\ row.answer = "success"
  BY <1>2, <1>3 DEF CallRows
<1>5. /\ call' \in [Calls -> CallRows] /\ call'[c] = row
      /\ \A d \in Calls : d # c => call'[d] = call[d]
  BY <1>3, <1>4 DEF IdempotencyInv, TypeOK
<1>6. CASE record' = record
  <2>1. ~ At(c, "done")
    BY <1>1 DEF At
  <2>2. GoodRow(c, row)
    BY <1>1, <1>2, <1>4 DEF GoodRow
  <2> QED BY <1>1, <1>3, <1>6, <2>1, <2>2, StepOfCall
<1>7. CASE record[k] = NoRecord /\ record' = [record EXCEPT ![k] = NewRecord(c)]
  <2>1. /\ record' \in [Keys -> Records \cup {NoRecord}] /\ record'[k] = NewRecord(c)
        /\ \A l \in Keys : l # k => record'[l] = record[l]
    BY <1>2, <1>7 DEF IdempotencyInv, TypeOK, NewRecord, Records
  <2>2. \A l \in Keys : record'[l] # NoRecord =>
           /\ record'[l].response \in Calls
           /\ call'[record'[l].response].pc = "done" /\ record'[l].response \in effects
           /\ call'[record'[l].response].key = l
           /\ call'[record'[l].response].body = record'[l].body
           /\ call'[record'[l].response].answer = "success"
    <3> SUFFICES ASSUME NEW l \in Keys, record'[l] # NoRecord
                 PROVE  /\ record'[l].response \in Calls
                        /\ call'[record'[l].response].pc = "done" /\ record'[l].response \in effects
                        /\ call'[record'[l].response].key = l
                        /\ call'[record'[l].response].body = record'[l].body
                        /\ call'[record'[l].response].answer = "success"
      OBVIOUS
    <3>1. CASE l = k
      BY <1>2, <1>4, <1>5, <2>1, <3>1 DEF NewRecord
    <3>2. CASE l # k
      BY <1>1, <1>5, <2>1, <3>2, TypesOfRows DEF IdempotencyInv, RecordsOfTheDone, At
    <3> QED BY <3>1, <3>2
  <2>3. TypeOK' /\ RecordsOfTheDone'
    BY <1>1, <1>5, <2>1, <2>2 DEF IdempotencyInv, TypeOK, RecordsOfTheDone, At
  <2>4. FreshCalls' /\ CallsOnTheWay'
    BY <1>1, <1>4, <1>5 DEF IdempotencyInv, FreshCalls, CallsOnTheWay, At
  <2>5. \A d \in Calls : call'[d].answer = "replayed" =>
           d # c /\ call[d].answer = "replayed" /\ call[d].of \in effects
    BY <1>4, <1>5 DEF IdempotencyInv, ReplaysAreGenuine
  <2>6. ReplaysOfTheDone' /\ ReplaysAreGenuine'
    <3> SUFFICES ASSUME NEW d \in Calls, call'[d].answer = "replayed"
                 PROVE  /\ At(d, "done")' /\ At(call[d].of, "done")'
                        /\ call'[d].of \in effects'
                        /\ call'[call'[d].of].answer = "success"
                        /\ call'[call'[d].of].key = call'[d].key
                        /\ call'[call'[d].of].body = call'[d].body
      BY DEF ReplaysOfTheDone, ReplaysAreGenuine, At
    <3>1. call'[d] = call[d] /\ call[d].of \in Calls /\ call[d].of # c
      BY <1>1, <1>5, <2>5 DEF IdempotencyInv, TypeOK, ReplaysOfTheDone, At
    <3> QED BY <1>1, <1>5, <2>5, <3>1 DEF IdempotencyInv, ReplaysOfTheDone, ReplaysAreGenuine, At
  <2>7. KnownCallsStop' /\ KnownKeysWriteNothing'
    BY <1>1, <1>2, <1>4, <1>5, <1>7, <2>1
       DEF IdempotencyInv, KnownCallsStop, KnownKeysWriteNothing, At, Live
  <2> QED BY <2>3, <2>4, <2>6, <2>7 DEF IdempotencyInv
<1> QED BY <1>1, <1>6, <1>7

(* When a record expires, no call on its way to it counts on it any more.  *)
LEMMA ExpireKeeps ==
    ASSUME IdempotencyInv, NEW k \in Keys, Expire(k)
    PROVE  IdempotencyInv'
<1>1. /\ Live(k) /\ record' = [record EXCEPT ![k].expired = TRUE] /\ effects' = effects
      /\ call' = [c \in Calls |-> IF At(c, "lookup") /\ call[c].key = k
                                    THEN [call[c] EXCEPT !.known = FALSE] ELSE call[c]]
  BY DEF Expire
<1>2. PICK r \in Records : /\ record' = [record EXCEPT ![k] = r]
                           /\ r.body = record[k].body /\ r.response = record[k].response
  <2>1. record[k] \in Records
    BY <1>1, TypesOfRows DEF Live, IdempotencyInv
  <2>2. PICK r : r = [record[k] EXCEPT !.expired = TRUE] /\ record' = [record EXCEPT ![k] = r]
    BY <1>1, Zenon
  <2>3. r \in Records /\ r.body = record[k].body /\ r.response = record[k].response
    BY <2>1, <2>2 DEF Records
  <2> QED BY <2>2, <2>3
<1>3. /\ record' \in [Keys -> Records \cup {NoRecord}]
      /\ \A l \in Keys : record'[l] # NoRecord =>
            /\ record[l] # NoRecord
            /\ record'[l].body = record[l].body /\ record'[l].response = record[l].response
      /\ \A l \in Keys \ {k} : record'[l] = record[l]
  BY <1>1, <1>2 DEF IdempotencyInv, TypeOK, Live
<1>4. ASSUME NEW c \in Calls
      PROVE  /\ call'[c] \in CallRows
             /\ call'[c].pc = call[c].pc /\ call'[c].key = call[c].key
             /\ call'[c].body = call[c].body /\ call'[c].answer = call[c].answer
             /\ call'[c].of = call[c].of
             /\ call'[c].known => call[c].known /\ ~ (At(c, "lookup") /\ call[c].key = k)
  <2>1. call[c] \in CallRows
    BY TypesOfRows DEF IdempotencyInv
  <2>2. CASE At(c, "lookup") /\ call[c].key = k
    BY <1>1, <2>1, <2>2 DEF CallRows
  <2>3. CASE ~ (At(c, "lookup") /\ call[c].key = k)
    BY <1>1, <2>1, <2>3
  <2> QED BY <2>2, <2>3
<1>5. call' \in [Calls -> CallRows]
  BY <1>1, <1>4
<1>6. TypeOK'
  BY <1>1, <1>3, <1>4, <1>5, TypesOfRows DEF IdempotencyInv, TypeOK
<1>7. RecordsOfTheDone'
  BY <1>1, <1>3, <1>4, TypesOfRows DEF IdempotencyInv, RecordsOfTheDone, At
<1>8. FreshCalls' /\ CallsOnTheWay'
  BY <1>1, <1>4 DEF IdempotencyInv, FreshCalls, CallsOnTheWay, At
<1>9. ReplaysOfTheDone' /\ ReplaysAreGenuine'
  <2> SUFFICES ASSUME NEW c \in Calls, call[c].answer = "replayed"
               PROVE  /\ At(c, "done")' /\ At(call[c].of, "done")'
                      /\ call'[c].of \in effects'
                      /\ call'[call'[c].of].answer = "success"
                      /\ call'[call'[c].of].key = call'[c].key
                      /\ call'[call'[c].of].body = call'[c].body
    BY <1>4 DEF ReplaysOfTheDone, ReplaysAreGenuine, At
  <2>1. call[c].of \in Calls
    BY DEF IdempotencyInv, TypeOK, ReplaysAreGenuine
  <2> QED BY <1>1, <1>4, <2>1 DEF IdempotencyInv, ReplaysOfTheDone, ReplaysAreGenuine, At
<1>10. KnownCallsStop' /\ KnownKeysWriteNothing'
  BY <1>1, <1>3, <1>4 DEF IdempotencyInv, KnownCallsStop, KnownKeysWriteNothing, At, Live
<1> QED BY <1>6, <1>7, <1>8, <1>9, <1>10 DEF IdempotencyInv

(* Only an expired record is purged.                                       *)
LEMMA PurgeKeeps ==
    ASSUME IdempotencyInv, NEW k \in Keys, Purge(k)
    PROVE  IdempotencyInv'
<1>1. /\ record[k].expired /\ record' = [record EXCEPT ![k] = NoRecord]
      /\ call' = call /\ effects' = effects
  BY DEF Purge
<1>2. /\ record' \in [Keys -> Records \cup {NoRecord}]
      /\ \A l \in Keys : record'[l] # NoRecord => record'[l] = record[l]
      /\ \A l \in Keys : Live(l) => record'[l] = record[l]
  BY <1>1 DEF IdempotencyInv, TypeOK, Live
<1>3. TypeOK' /\ RecordsOfTheDone'
  BY <1>1, <1>2 DEF IdempotencyInv, TypeOK, RecordsOfTheDone, At
<1>4. KnownCallsStop'
  BY <1>1, <1>2 DEF IdempotencyInv, KnownCallsStop, At, Live
<1> QED BY <1>1, <1>3, <1>4 DEF IdempotencyInv, FreshCalls, CallsOnTheWay, ReplaysOfTheDone,
           ReplaysAreGenuine, KnownKeysWriteNothing, At

LEMMA NextKeeps == IdempotencyInv /\ [Next]_vars => IdempotencyInv'
<1> SUFFICES ASSUME IdempotencyInv, [Next]_vars PROVE IdempotencyInv'
  OBVIOUS
<1>1. ASSUME NEW c \in Calls, NEW k \in Keys \cup {NoKey}, NEW b \in Bodies, Send(c, k, b)
      PROVE  IdempotencyInv'
  BY <1>1, SendKeeps
<1>2. ASSUME NEW c \in Calls, MissingKey(c) PROVE IdempotencyInv'
  BY <1>2, MissingKeyKeeps
<1>3. ASSUME NEW c \in Calls, Lookup(c) PROVE IdempotencyInv'
  BY <1>3, LookupKeeps
<1>4. ASSUME NEW c \in Calls, Handle(c) PROVE IdempotencyInv'
  BY <1>4, HandleKeeps
<1>5. ASSUME NEW c \in Calls, Put(c) PROVE IdempotencyInv'
  BY <1>5, PutKeeps
<1>6. ASSUME NEW c \in Calls, Cut(c) PROVE IdempotencyInv'
  BY <1>6, CutKeeps
<1>7. ASSUME NEW k \in Keys, Expire(k) PROVE IdempotencyInv'
  BY <1>7, ExpireKeeps
<1>8. ASSUME NEW k \in Keys, Purge(k) PROVE IdempotencyInv'
  BY <1>8, PurgeKeeps
<1>9. CASE UNCHANGED vars
  BY <1>9 DEF vars, IdempotencyInv, TypeOK, FreshCalls, CallsOnTheWay, RecordsOfTheDone,
     ReplaysOfTheDone, ReplaysAreGenuine, KnownCallsStop, KnownKeysWriteNothing, At, Live
<1> QED BY <1>1, <1>2, <1>3, <1>4, <1>5, <1>6, <1>7, <1>8, <1>9 DEF Next

LEMMA InvHolds == Spec => []IdempotencyInv
BY InitHolds, NextKeeps, PTL DEF Spec

-----------------------------------------------------------------------------
(* The tables stay well formed, and every record was left by a request     *)
(* that succeeded under its key and body.                                  *)
THEOREM TypeCorrect == Spec => []TypeOK
<1>1. IdempotencyInv => TypeOK
  BY DEF IdempotencyInv
<1> QED BY <1>1, InvHolds, PTL

(* Every replay repeats an earlier request of the same key and body whose  *)
(* write was committed, however many calls race for a key, are cut off or  *)
(* find it expired or purged.                                              *)
THEOREM ReplaysRepeat == Spec => []ReplaysAreGenuine
<1>1. IdempotencyInv => ReplaysAreGenuine
  BY DEF IdempotencyInv
<1> QED BY <1>1, InvHolds, PTL

(* A request sent while its key has a live record never writes, unless the *)
(* record's 24 h run out before its lookup: nothing else ends a record, so *)
(* it reaches a replay or a refusal.                                       *)
THEOREM RetriesWriteNothing == Spec => []KnownKeysWriteNothing
<1>1. IdempotencyInv => KnownKeysWriteNothing
  BY DEF IdempotencyInv
<1> QED BY <1>1, InvHolds, PTL

(* No step but its expiry touches a live record: the insert that finds its *)
(* key taken leaves the record there, so all replays carry one response.   *)
THEOREM RecordsAreFinal == Spec => LiveRecordsAreFinal
<1> DEFINE Final == \A k \in Keys : Live(k) => /\ record'[k] # NoRecord
                                               /\ record'[k].response = record[k].response
                                               /\ record'[k].body = record[k].body
<1>1. ASSUME TypeOK, Next PROVE Final
  <2>1. ASSUME record' = record PROVE Final
    BY <2>1 DEF Live
  <2>2. ASSUME NEW c \in Calls, Put(c) PROVE Final
    BY <2>2, <1>1 DEF Put, Live, TypeOK
  <2>3. ASSUME NEW k \in Keys, Expire(k) PROVE Final
    <3>1. record[k] \in Records /\ record[k] # NoRecord
      BY <1>1, <2>3 DEF Expire, Live, TypeOK
    <3>2. PICK r : r = [record[k] EXCEPT !.expired = TRUE] /\ record' = [record EXCEPT ![k] = r]
      BY <2>3, Zenon DEF Expire
    <3>3. r \in Records /\ r.body = record[k].body /\ r.response = record[k].response
      BY <3>1, <3>2 DEF Records
    <3>4. r # NoRecord
      BY <3>3, NoRecordAssumption
    <3> QED BY <1>1, <3>2, <3>3, <3>4 DEF Live, TypeOK
  <2>4. ASSUME NEW k \in Keys, Purge(k) PROVE Final
    BY <2>4, <1>1 DEF Purge, Live, TypeOK
  <2>5. ASSUME NEW c \in Calls, MissingKey(c) \/ Lookup(c) \/ Handle(c) \/ Cut(c) PROVE record' = record
    BY <2>5 DEF MissingKey, Lookup, Handle, Cut
  <2>6. ASSUME NEW c \in Calls, NEW k \in Keys \cup {NoKey}, NEW b \in Bodies, Send(c, k, b)
        PROVE  record' = record
    BY <2>6 DEF Send
  <2> HIDE DEF Final
  <2> QED BY <1>1, <2>1, <2>2, <2>3, <2>4, <2>5, <2>6 DEF Next
<1>2. TypeOK /\ [Next]_vars => [Final]_vars
  BY <1>1
<1> QED BY <1>2, TypeCorrect, PTL DEF Spec, LiveRecordsAreFinal

=============================================================================
