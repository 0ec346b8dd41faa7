------------------------- MODULE DatabaseQueryProofs -------------------------
(***************************************************************************)
(* Proofs about DatabaseQuery: for every limit, an answer that is printed  *)
(* is the whole answer, everything that was opened is closed, and the exit *)
(* code says why.                                                          *)
(***************************************************************************)
EXTENDS DatabaseQuery, SequenceTheorems, FiniteSetTheorems, TLAPS

\* Every plan begins with the configuration and asks for rows last.
LEMMA PlanShape ==
    ASSUME NEW r \in Requests
    PROVE  /\ DOMAIN Plan(r) = 1 .. Len(Plan(r)) /\ Len(Plan(r)) \in 3 .. 7
           /\ \A i \in DOMAIN Plan(r) :
                /\ Plan(r)[i] = "config" <=> i = 1
                /\ Plan(r)[i] = "rows" <=> i = Len(Plan(r))
<1>1. r.engine \in {"postgres", "mysql", "mongodb", "redis"}
  BY DEF Requests
<1>2. CASE r.engine = "postgres"
  BY <1>2 DEF Plan
<1>3. CASE r.engine = "mysql"
  BY <1>3 DEF Plan
<1>4. CASE r.engine = "mongodb"
  BY <1>4 DEF Plan
<1>5. CASE r.engine = "redis"
  <2>1. CASE r.action = "schema"
    <3>1. Plan(r) = <<"config", "client", "dbsize", "rows">>
      BY <1>5, <2>1 DEF Plan
    <3>2. QED
      BY <3>1
  <2>2. CASE r.action # "schema" /\ r.hash
    <3>1. Plan(r) = <<"config", "client", "hlen", "rows">>
      BY <1>5, <2>2 DEF Plan
    <3>2. QED
      BY <3>1
  <2>3. CASE r.action # "schema" /\ ~r.hash
    <3>1. Plan(r) = <<"config", "client", "rows">>
      BY <1>5, <2>3 DEF Plan
    <3>2. QED
      BY <3>1
  <2>4. QED
    BY <2>1, <2>2, <2>3
<1>6. QED
  BY <1>1, <1>2, <1>3, <1>4, <1>5

\* What is sent is a sequence of rows, and a server that is asked for one row
\* more than the limit has sent all of its rows unless it sent too many.
LEMMA SentRows ==
    ASSUME NEW r \in Requests, NEW a \in Answers(r)
    PROVE  /\ Sent(r, a) \in Seq(RowKinds)
           /\ Len(Sent(r, a)) <= MaxRows => Sent(r, a) = a.rows
<1> USE LimitsAssumption
<1>1. a.rows \in Seq(RowKinds)
  BY SeqDef DEF Answers
<1>2. CASE Limited(r) /\ Len(a.rows) > RowLimit
  <2>1. Sent(r, a) = SubSeq(a.rows, 1, RowLimit)
    BY <1>2 DEF Sent
  <2>2. /\ SubSeq(a.rows, 1, RowLimit) \in Seq(RowKinds)
        /\ Len(SubSeq(a.rows, 1, RowLimit)) = RowLimit
    BY <1>1, <1>2, SubSeqProperties, LenProperties, Z3 DEF RowLimit
  <2>3. QED
    BY <2>1, <2>2 DEF RowLimit
<1>3. CASE ~(Limited(r) /\ Len(a.rows) > RowLimit)
  BY <1>1, <1>3 DEF Sent
<1>4. QED
  BY <1>2, <1>3

\* A step that ends in an error, at whatever call, is a return.
LEMMA WaitSteps ==
    ASSUME ServerFails \/ Interrupted
    PROVE  \/ LookupTimesOut
           \/ \E why \in {"server", "bytes", "metadata"} : WaitFails(why)
           \/ clock > 0 /\ WaitFails("timeout")
           \/ innerErr # None /\ WaitFails(innerErr)
BY DEF ServerFails, Interrupted

\* What the driver makes of an error is that error or, for MySQL, one of the
\* server's; a used up byte budget is a limit.
LEMMA RewriteShape ==
    ASSUME NEW why, NEW e \in Rewrites(why)
    PROVE  \/ e = why /\ why # "bytes"
           \/ e = "limit" /\ why = "bytes"
           \/ e = "server" /\ why \in {"bytes", "timeout"} /\ req.engine = "mysql"
BY DEF Rewrites, Returned

\* The empty result is inside both limits.
LEMMA EmptyResult == Len(<<>>) <= MaxRows /\ Size(<<>>) <= MaxResult
<1>1. { i \in DOMAIN <<>> : <<>>[i] = "large" } = {}
  OBVIOUS
<1>2. Size(<<>>) = 1
  BY <1>1, FS_EmptySet DEF Size
<1>3. QED
  BY <1>2, LimitsAssumption

\* The size of a result is a number.
LEMMA SizeIsNat == \A rows \in Seq(RowKinds \ {"garbled"}) : Size(rows) \in Nat
<1> SUFFICES ASSUME NEW rows \in Seq(RowKinds \ {"garbled"}) PROVE Size(rows) \in Nat
  OBVIOUS
<1> DEFINE large == { i \in DOMAIN rows : rows[i] = "large" }
<1>1. large \subseteq 1 .. Len(rows) /\ Len(rows) \in Nat
  BY LenProperties
<1>2. IsFiniteSet(large)
  BY <1>1, FS_Interval, FS_Subset
<1>3. Cardinality(large) \in Nat
  BY <1>2, FS_CardinalityType
<1>4. QED
  BY <1>1, <1>3 DEF Size

\* What is left after a deferred close is a sequence again.
LEMMA PoppedHeld ==
    ASSUME StateOK
    PROVE  SubSeq(held, 1, Len(held) - 1) \in Seq(Closeable \cup {"rows"})
<1>1. held \in Seq(Closeable \cup {"rows"})
  BY DEF StateOK
<1>2. \A i \in 1 .. Len(held) - 1 : held[i] \in Closeable \cup {"rows"}
  BY <1>1, ElementOfSeq, LenProperties
<1>3. QED
  BY <1>1, <1>2, SubSeqProperties, LenProperties

\* A call that returned is followed by another one of the plan, or by the rows.
LEMMA CallStep ==
    ASSUME StateOK, StageInv, pc = "open", Opened
    PROVE  /\ held' \in Seq(Closeable \cup {"rows"})
           /\ step' \in 2 .. 8
           /\ pc' \in {"open", "columns"}
           /\ pc' = "open" => step' \in DOMAIN Plan(req)
           /\ pc' = "columns" <=> Call = "rows"
<1>1. /\ held \in Seq(Closeable \cup {"rows"})
      /\ req \in Requests
      /\ step \in DOMAIN Plan(req)
  BY DEF StateOK, StageInv
<1>2. step \in 1 .. 7 /\ (Call = "rows" <=> step = Len(Plan(req)))
  BY <1>1, PlanShape DEF Call
<1>3. held' \in Seq(Closeable \cup {"rows"})
  <2>1. CASE Acquires(Call)
    <3>1. Call \in Closeable \cup {"rows"}
      BY <2>1 DEF Acquires
    <3>2. QED
      BY <1>1, <2>1, <3>1, AppendProperties DEF Opened
  <2>2. CASE ~Acquires(Call)
    BY <1>1, <2>2 DEF Opened
  <2>3. QED
    BY <2>1, <2>2
<1>4. QED
  BY <1>1, <1>2, <1>3, PlanShape DEF Opened

\* The row that is read next is one that was sent, and joins the rows before it.
LEMMA RowStep ==
    ASSUME StateOK, AnswerOK, RowsInv, pc = "rows", ~AllRead,
           Sent(req, answer)[Len(kept) + 1] # "garbled",
           kept' = Append(kept, Sent(req, answer)[Len(kept) + 1])
    PROVE  /\ kept' \in Seq(RowKinds \ {"garbled"})
           /\ Len(kept') = Len(kept) + 1
           /\ Len(kept') <= Len(Sent(req, answer))
           /\ \A i \in 1 .. Len(kept') : kept'[i] = Sent(req, answer)[i]
<1> DEFINE sent == Sent(req, answer)
           row == sent[Len(kept) + 1]
<1>1. /\ kept \in Seq(RowKinds \ {"garbled"}) /\ Len(kept) \in Nat
      /\ sent \in Seq(RowKinds) /\ Len(sent) \in Nat
  BY SentRows, LenProperties DEF StateOK, AnswerOK
<1>2. Len(kept) + 1 \in 1 .. Len(sent)
  BY <1>1 DEF RowsInv, AllRead
<1>3. row \in RowKinds \ {"garbled"}
  BY <1>1, <1>2, ElementOfSeq
<1>4. /\ Append(kept, row) \in Seq(RowKinds \ {"garbled"})
      /\ Len(Append(kept, row)) = Len(kept) + 1
      /\ \A i \in 1 .. Len(kept) : Append(kept, row)[i] = kept[i]
      /\ Append(kept, row)[Len(kept) + 1] = row
  BY <1>1, <1>3, AppendProperties
<1>5. ASSUME NEW i \in 1 .. Len(kept) + 1
      PROVE  Append(kept, row)[i] = sent[i]
  BY <1>1, <1>4 DEF RowsInv
<1>6. QED
  BY <1>1, <1>2, <1>4, <1>5

\* When as many rows were read as were sent, they are the rows that were sent,
\* and only MySQL can have more results.
LEMMA ReadAll ==
    ASSUME StateOK, AnswerOK, RowsInv, pc = "rows", AllRead
    PROVE  /\ kept = Sent(req, answer)
           /\ answer.more => req.engine = "mysql"
<1>1. kept \in Seq(RowKinds) /\ Sent(req, answer) \in Seq(RowKinds)
  BY SentRows, SeqMonotonic DEF StateOK, AnswerOK
<1>2. kept = Sent(req, answer)
  BY <1>1, SeqEqual DEF RowsInv, AllRead
<1>3. answer.more => req.engine = "mysql"
  BY DEF AnswerOK, Answers
<1>4. QED
  BY <1>2, <1>3

\* The text is refused or accepted.
LEMMA CheckInputCases ==
    ASSUME CheckInput
    PROVE  \/ Fail("config", "config")
           \/ pc' = "open" /\ UNCHANGED <<errors, kept>>
BY DEF CheckInput

\* A call that stays on this machine fails on the configuration or its options.
LEMMA OpenLocalCases ==
    ASSUME OpenLocal
    PROVE  \/ Call = "config" /\ Fail("config", "config") /\ UNCHANGED <<step, held>>
           \/ Fail("limit", "limit") /\ UNCHANGED <<step, held>>
           \/ Fail("query", "query") /\ UNCHANGED <<step, held>>
           \/ Opened /\ UNCHANGED <<errors, kept>>
<1>1. CASE Opened /\ UNCHANGED <<errors, kept>>
  BY <1>1
<1>2. ASSUME NEW e \in Refusals, Fail(e, e), UNCHANGED <<step, held>>
      PROVE  \/ Call = "config" /\ Fail("config", "config") /\ UNCHANGED <<step, held>>
             \/ Fail("limit", "limit") /\ UNCHANGED <<step, held>>
             \/ Fail("query", "query") /\ UNCHANGED <<step, held>>
  <2>1. e = "limit" \/ e = "query" \/ (e = "config" /\ Call = "config")
    BY DEF Refusals
  <2>2. QED
    BY <1>2, <2>1
<1>3. QED
  BY <1>1, <1>2 DEF OpenLocal

\* A hash may be too large, and the last call brings the answer.
LEMMA OpenRemoteCases ==
    ASSUME OpenRemote
    PROVE  \/ Fail("limit", "limit") /\ UNCHANGED <<step, held, answer>>
           \/ Opened /\ answer' = answer /\ UNCHANGED <<errors, kept>> /\ pc' = "open"
           \/ Opened /\ UNCHANGED <<errors, kept>> /\ answer' \in Answers(req) /\ pc' = "columns"
BY DEF OpenRemote, Opened

\* There may be too many columns.
LEMMA BuildColumnsCases ==
    ASSUME BuildColumns
    PROVE  \/ Fail("limit", "limit")
           \/ ~answer.wide /\ pc' = "rows" /\ UNCHANGED <<errors, kept>>
BY DEF BuildColumns

\* The next row is one too many, garbled, too large, or kept.
LEMMA ReadRowCases ==
    ASSUME ReadRow
    PROVE  \/ Fail("limit", "limit")
           \/ Fail("query", "query")
           \/ /\ Sent(req, answer)[Len(kept) + 1] # "garbled"
              /\ kept' = Append(kept, Sent(req, answer)[Len(kept) + 1])
              /\ ~(Len(kept) >= MaxRows) /\ ~(Size(kept') > MaxResult)
              /\ UNCHANGED <<errors, pc>>
BY DEF ReadRow, Add

\* Reading ends with a second result, a failed close, or all rows.
LEMMA LastRowCases ==
    ASSUME LastRow
    PROVE  \/ Fail("query", "query") /\ UNCHANGED <<held, unclean>>
           \/ /\ Fail("server", "server") /\ unclean' = TRUE
              /\ held' = SubSeq(held, 1, Len(held) - 1)
           \/ /\ pc' = "close" /\ (req.engine = "mysql" => ~answer.more)
              /\ held' = held
              /\ UNCHANGED <<unclean, errors, kept>>
           \/ /\ pc' = "close" /\ (req.engine = "mysql" => ~answer.more)
              /\ held' = SubSeq(held, 1, Len(held) - 1)
              /\ UNCHANGED <<unclean, errors, kept>>
BY DEF LastRow

\* A failed close is an error if it is the first one.
LEMMA CloseCases ==
    ASSUME Close
    PROVE  \/ err = None /\ Fail("query", "close") /\ unclean' = TRUE
           \/ UNCHANGED <<errors, kept, pc>> /\ (unclean' = unclean \/ err # None)
BY DEF Close

\* Every step keeps the types of the state.
LEMMA TypesStep == QueryInv /\ [Next]_vars => StateOK'
<1> SUFFICES ASSUME QueryInv, [Next]_vars PROVE StateOK'
  OBVIOUS
<1> USE LimitsAssumption, NoneAssumption
   DEF QueryInv, TypeOK, StateOK, Errors, vars, control, data, errors, time, report,
       StageInv
<1>1. CASE RefuseTarget
  BY <1>1 DEF RefuseTarget, Finish, ExitCode
<1>2. CASE ReadStdin
  BY <1>2 DEF ReadStdin, Finish, ExitCode
<1>3. CASE CheckInput
  <2>1. CASE Fail("config", "config")
    BY <1>3, <2>1 DEF CheckInput, Fail
  <2>2. CASE pc' = "open" /\ UNCHANGED <<errors, kept>>
    BY <1>3, <2>2 DEF CheckInput, Fail
  <2>3. QED
    BY <1>3, <2>1, <2>2, CheckInputCases
<1>4. CASE OpenLocal
  <2>1. CASE Call = "config" /\ Fail("config", "config") /\ UNCHANGED <<step, held>>
    BY <1>4, <2>1, CallStep DEF OpenLocal, Fail, Call
  <2>2. CASE Fail("limit", "limit") /\ UNCHANGED <<step, held>>
    BY <1>4, <2>2, CallStep DEF OpenLocal, Fail, Call
  <2>3. CASE Fail("query", "query") /\ UNCHANGED <<step, held>>
    BY <1>4, <2>3, CallStep DEF OpenLocal, Fail, Call
  <2>4. CASE Opened /\ UNCHANGED <<errors, kept>>
    BY <1>4, <2>4, CallStep DEF OpenLocal, Fail, Call
  <2>5. QED
    BY <1>4, <2>1, <2>2, <2>3, <2>4, OpenLocalCases
<1>5. CASE OpenRemote
  <2>1. CASE Fail("limit", "limit") /\ UNCHANGED <<step, held, answer>>
    BY <1>5, <2>1, CallStep DEF OpenRemote, Fail, Call
  <2>2. CASE Opened /\ answer' = answer /\ UNCHANGED <<errors, kept>> /\ pc' = "open"
    BY <1>5, <2>2, CallStep DEF OpenRemote, Fail, Call
  <2>3. CASE Opened /\ UNCHANGED <<errors, kept>> /\ answer' \in Answers(req) /\ pc' = "columns"
    BY <1>5, <2>3, CallStep DEF OpenRemote, Fail, Call
  <2>4. QED
    BY <1>5, <2>1, <2>2, <2>3, OpenRemoteCases
<1>6. CASE BuildColumns
  <2>1. CASE Fail("limit", "limit")
    BY <1>6, <2>1 DEF BuildColumns, Fail
  <2>2. CASE ~answer.wide /\ pc' = "rows" /\ UNCHANGED <<errors, kept>>
    BY <1>6, <2>2 DEF BuildColumns, Fail
  <2>3. QED
    BY <1>6, <2>1, <2>2, BuildColumnsCases
<1>7. CASE ReadRow
  <2>1. CASE Fail("limit", "limit")
    BY <1>7, <2>1 DEF ReadRow, AllRead, Fail
  <2>2. CASE Fail("query", "query")
    BY <1>7, <2>2 DEF ReadRow, AllRead, Fail
  <2>3. CASE /\ Sent(req, answer)[Len(kept) + 1] # "garbled"
             /\ kept' = Append(kept, Sent(req, answer)[Len(kept) + 1])
             /\ ~(Len(kept) >= MaxRows) /\ ~(Size(kept') > MaxResult)
             /\ UNCHANGED <<errors, pc>>
    BY <1>7, <2>3, RowStep DEF ReadRow, AllRead, Fail
  <2>4. QED
    BY <1>7, <2>1, <2>2, <2>3, ReadRowCases
<1>8. CASE LastRow
  <2>1. CASE Fail("query", "query") /\ UNCHANGED <<held, unclean>>
    BY <1>8, <2>1, PoppedHeld DEF LastRow, Fail
  <2>2. CASE /\ Fail("server", "server") /\ unclean' = TRUE
             /\ held' = SubSeq(held, 1, Len(held) - 1)
    BY <1>8, <2>2, PoppedHeld DEF LastRow, Fail
  <2>3. CASE /\ pc' = "close" /\ (req.engine = "mysql" => ~answer.more)
             /\ held' = held
             /\ UNCHANGED <<unclean, errors, kept>>
    BY <1>8, <2>3, PoppedHeld DEF LastRow, Fail
  <2>4. CASE /\ pc' = "close" /\ (req.engine = "mysql" => ~answer.more)
             /\ held' = SubSeq(held, 1, Len(held) - 1)
             /\ UNCHANGED <<unclean, errors, kept>>
    BY <1>8, <2>4, PoppedHeld DEF LastRow, Fail
  <2>5. QED
    BY <1>8, <2>1, <2>2, <2>3, <2>4, LastRowCases
<1>9. CASE Close
  <2>1. CASE err = None /\ Fail("query", "close") /\ unclean' = TRUE
    BY <1>9, <2>1, PoppedHeld DEF Close, Fail
  <2>2. CASE UNCHANGED <<errors, kept, pc>> /\ (unclean' = unclean \/ err # None)
    BY <1>9, <2>2, PoppedHeld DEF Close, Fail
  <2>3. QED
    BY <1>9, <2>1, <2>2, CloseCases
<1>10. CASE Report
  BY <1>10 DEF Report, Finish, ExitCode, SafeError
<1>11. CASE LookupTimesOut
  BY <1>11 DEF LookupTimesOut, Fail, Waiting
<1>12. CASE Tick
  BY <1>12 DEF Tick
<1>13. CASE InnerDone
  BY <1>13 DEF InnerDone
<1>14. CASE OuterDone
  BY <1>14 DEF OuterDone
<1>15. CASE Signal
  BY <1>15 DEF Signal
<1>16. ASSUME NEW why \in Errors \ {"config"}, WaitFails(why), why = "timeout" => clock > 0,
         why \in {"canceled", "deadline"} => why = innerErr
      PROVE  StateOK'
  BY <1>16, RewriteShape DEF WaitFails, Fail, Waiting
<1>17. CASE Write
  BY <1>17 DEF Write, Finish, ExitCode
<1>18. CASE UNCHANGED vars
  BY <1>18
<1>19. QED
  BY <1>1, <1>2, <1>3, <1>4, <1>5, <1>6, <1>7, <1>8, <1>9,
     <1>10, <1>11, <1>12, <1>13, <1>14, <1>15, <1>16, <1>17, <1>18, WaitSteps DEF Next, Work

\* Every step leaves the result inside its limits, and the command ends with
\* nothing open.
LEMMA StaysOpenStep == QueryInv /\ [Next]_vars => NothingStaysOpen'
<1> SUFFICES ASSUME QueryInv, [Next]_vars PROVE NothingStaysOpen'
  OBVIOUS
<1> USE LimitsAssumption, NoneAssumption
   DEF QueryInv, TypeOK, StateOK, Errors, vars, control, data, errors, time, report,
       NothingStaysOpen, StageInv
<1>1. CASE RefuseTarget
  BY <1>1 DEF RefuseTarget, Finish, ExitCode
<1>2. CASE ReadStdin
  BY <1>2 DEF ReadStdin, Finish, ExitCode
<1>3. CASE CheckInput
  <2>1. CASE Fail("config", "config")
    BY <1>3, <2>1, EmptyResult DEF CheckInput, Fail
  <2>2. CASE pc' = "open" /\ UNCHANGED <<errors, kept>>
    BY <1>3, <2>2, EmptyResult DEF CheckInput, Fail
  <2>3. QED
    BY <1>3, <2>1, <2>2, CheckInputCases
<1>4. CASE OpenLocal
  <2>1. CASE Call = "config" /\ Fail("config", "config") /\ UNCHANGED <<step, held>>
    BY <1>4, <2>1, EmptyResult DEF OpenLocal, Fail, Call
  <2>2. CASE Fail("limit", "limit") /\ UNCHANGED <<step, held>>
    BY <1>4, <2>2, EmptyResult DEF OpenLocal, Fail, Call
  <2>3. CASE Fail("query", "query") /\ UNCHANGED <<step, held>>
    BY <1>4, <2>3, EmptyResult DEF OpenLocal, Fail, Call
  <2>4. CASE Opened /\ UNCHANGED <<errors, kept>>
    BY <1>4, <2>4, EmptyResult, CallStep DEF OpenLocal, Fail, Call
  <2>5. QED
    BY <1>4, <2>1, <2>2, <2>3, <2>4, OpenLocalCases
<1>5. CASE OpenRemote
  <2>1. CASE Fail("limit", "limit") /\ UNCHANGED <<step, held, answer>>
    BY <1>5, <2>1, EmptyResult DEF OpenRemote, Fail, Call
  <2>2. CASE Opened /\ answer' = answer /\ UNCHANGED <<errors, kept>> /\ pc' = "open"
    BY <1>5, <2>2, EmptyResult, CallStep DEF OpenRemote, Fail, Call
  <2>3. CASE Opened /\ UNCHANGED <<errors, kept>> /\ answer' \in Answers(req) /\ pc' = "columns"
    BY <1>5, <2>3, EmptyResult, CallStep DEF OpenRemote, Fail, Call
  <2>4. QED
    BY <1>5, <2>1, <2>2, <2>3, OpenRemoteCases
<1>6. CASE BuildColumns
  <2>1. CASE Fail("limit", "limit")
    BY <1>6, <2>1, EmptyResult DEF BuildColumns, Fail
  <2>2. CASE ~answer.wide /\ pc' = "rows" /\ UNCHANGED <<errors, kept>>
    BY <1>6, <2>2, EmptyResult DEF BuildColumns, Fail
  <2>3. QED
    BY <1>6, <2>1, <2>2, BuildColumnsCases
<1>7. CASE ReadRow
  <2>1. CASE Fail("limit", "limit")
    BY <1>7, <2>1, EmptyResult DEF ReadRow, AllRead, Fail
  <2>2. CASE Fail("query", "query")
    BY <1>7, <2>2, EmptyResult DEF ReadRow, AllRead, Fail
  <2>3. CASE /\ Sent(req, answer)[Len(kept) + 1] # "garbled"
             /\ kept' = Append(kept, Sent(req, answer)[Len(kept) + 1])
             /\ ~(Len(kept) >= MaxRows) /\ ~(Size(kept') > MaxResult)
             /\ UNCHANGED <<errors, pc>>
    <3>1. Len(kept') = Len(kept) + 1 /\ kept' \in Seq(RowKinds \ {"garbled"})
      BY <1>7, <2>3, RowStep DEF ReadRow
    <3>2. Size(kept') \in Nat
      BY <3>1, SizeIsNat
    <3>3. Len(kept') <= MaxRows /\ Size(kept') <= MaxResult
      BY <2>3, <3>1, <3>2, LenProperties
    <3>4. QED
      BY <1>7, <2>3, <3>3 DEF ReadRow
  <2>4. QED
    BY <1>7, <2>1, <2>2, <2>3, ReadRowCases
<1>8. CASE LastRow
  <2>1. CASE Fail("query", "query") /\ UNCHANGED <<held, unclean>>
    BY <1>8, <2>1, EmptyResult DEF LastRow, Fail
  <2>2. CASE /\ Fail("server", "server") /\ unclean' = TRUE
             /\ held' = SubSeq(held, 1, Len(held) - 1)
    BY <1>8, <2>2, EmptyResult DEF LastRow, Fail
  <2>3. CASE /\ pc' = "close" /\ (req.engine = "mysql" => ~answer.more)
             /\ held' = held
             /\ UNCHANGED <<unclean, errors, kept>>
    BY <1>8, <2>3, EmptyResult DEF LastRow, Fail
  <2>4. CASE /\ pc' = "close" /\ (req.engine = "mysql" => ~answer.more)
             /\ held' = SubSeq(held, 1, Len(held) - 1)
             /\ UNCHANGED <<unclean, errors, kept>>
    BY <1>8, <2>4, EmptyResult DEF LastRow, Fail
  <2>5. QED
    BY <1>8, <2>1, <2>2, <2>3, <2>4, LastRowCases
<1>9. CASE Close
  <2>1. CASE err = None /\ Fail("query", "close") /\ unclean' = TRUE
    BY <1>9, <2>1, EmptyResult DEF Close, Fail
  <2>2. CASE UNCHANGED <<errors, kept, pc>> /\ (unclean' = unclean \/ err # None)
    BY <1>9, <2>2, EmptyResult DEF Close, Fail
  <2>3. QED
    BY <1>9, <2>1, <2>2, CloseCases
<1>10. CASE Report
  BY <1>10 DEF Report, Finish, ExitCode, SafeError
<1>11. CASE LookupTimesOut
  BY <1>11, EmptyResult DEF LookupTimesOut, Fail, Waiting
<1>12. CASE Tick
  BY <1>12 DEF Tick
<1>13. CASE InnerDone
  BY <1>13 DEF InnerDone
<1>14. CASE OuterDone
  BY <1>14 DEF OuterDone
<1>15. CASE Signal
  BY <1>15 DEF Signal
<1>16. ASSUME NEW why \in Errors \ {"config"}, WaitFails(why), why = "timeout" => clock > 0,
         why \in {"canceled", "deadline"} => why = innerErr
      PROVE  NothingStaysOpen'
  BY <1>16, RewriteShape, EmptyResult DEF WaitFails, Fail, Waiting
<1>17. CASE Write
  BY <1>17 DEF Write, Finish, ExitCode
<1>18. CASE UNCHANGED vars
  BY <1>18
<1>19. QED
  BY <1>1, <1>2, <1>3, <1>4, <1>5, <1>6, <1>7, <1>8, <1>9,
     <1>10, <1>11, <1>12, <1>13, <1>14, <1>15, <1>16, <1>17, <1>18, WaitSteps DEF Next, Work

\* Every step keeps what is known at each point of the adapter.
LEMMA StageStep == QueryInv /\ [Next]_vars => StageInv'
<1> SUFFICES ASSUME QueryInv, [Next]_vars PROVE StageInv'
  OBVIOUS
<1> USE LimitsAssumption, NoneAssumption
   DEF QueryInv, TypeOK, StateOK, Errors, vars, control, data, errors, time, report,
       StageInv
<1>1. CASE RefuseTarget
  BY <1>1 DEF RefuseTarget, Finish, ExitCode
<1>2. CASE ReadStdin
  BY <1>2 DEF ReadStdin, Finish, ExitCode
<1>3. CASE CheckInput
  <2>1. CASE Fail("config", "config")
    BY <1>3, <2>1, PlanShape DEF CheckInput, Fail
  <2>2. CASE pc' = "open" /\ UNCHANGED <<errors, kept>>
    BY <1>3, <2>2, PlanShape DEF CheckInput, Fail
  <2>3. QED
    BY <1>3, <2>1, <2>2, CheckInputCases
<1>4. CASE OpenLocal
  <2>1. CASE Call = "config" /\ Fail("config", "config") /\ UNCHANGED <<step, held>>
    BY <1>4, <2>1, CallStep, PlanShape DEF OpenLocal, Fail, Call
  <2>2. CASE Fail("limit", "limit") /\ UNCHANGED <<step, held>>
    BY <1>4, <2>2, CallStep, PlanShape DEF OpenLocal, Fail, Call
  <2>3. CASE Fail("query", "query") /\ UNCHANGED <<step, held>>
    BY <1>4, <2>3, CallStep, PlanShape DEF OpenLocal, Fail, Call
  <2>4. CASE Opened /\ UNCHANGED <<errors, kept>>
    BY <1>4, <2>4, CallStep, PlanShape DEF OpenLocal, Fail, Call
  <2>5. QED
    BY <1>4, <2>1, <2>2, <2>3, <2>4, OpenLocalCases
<1>5. CASE OpenRemote
  <2>1. CASE Fail("limit", "limit") /\ UNCHANGED <<step, held, answer>>
    BY <1>5, <2>1, CallStep, PlanShape DEF OpenRemote, Fail, Call
  <2>2. CASE Opened /\ answer' = answer /\ UNCHANGED <<errors, kept>> /\ pc' = "open"
    BY <1>5, <2>2, CallStep, PlanShape DEF OpenRemote, Fail, Call
  <2>3. CASE Opened /\ UNCHANGED <<errors, kept>> /\ answer' \in Answers(req) /\ pc' = "columns"
    BY <1>5, <2>3, CallStep, PlanShape DEF OpenRemote, Fail, Call
  <2>4. QED
    BY <1>5, <2>1, <2>2, <2>3, OpenRemoteCases
<1>6. CASE BuildColumns
  <2>1. CASE Fail("limit", "limit")
    BY <1>6, <2>1 DEF BuildColumns, Fail
  <2>2. CASE ~answer.wide /\ pc' = "rows" /\ UNCHANGED <<errors, kept>>
    BY <1>6, <2>2 DEF BuildColumns, Fail
  <2>3. QED
    BY <1>6, <2>1, <2>2, BuildColumnsCases
<1>7. CASE ReadRow
  <2>1. CASE Fail("limit", "limit")
    BY <1>7, <2>1 DEF ReadRow, AllRead, Fail
  <2>2. CASE Fail("query", "query")
    BY <1>7, <2>2 DEF ReadRow, AllRead, Fail
  <2>3. CASE /\ Sent(req, answer)[Len(kept) + 1] # "garbled"
             /\ kept' = Append(kept, Sent(req, answer)[Len(kept) + 1])
             /\ ~(Len(kept) >= MaxRows) /\ ~(Size(kept') > MaxResult)
             /\ UNCHANGED <<errors, pc>>
    BY <1>7, <2>3 DEF ReadRow, AllRead, Fail
  <2>4. QED
    BY <1>7, <2>1, <2>2, <2>3, ReadRowCases
<1>8. CASE LastRow
  <2>1. CASE Fail("query", "query") /\ UNCHANGED <<held, unclean>>
    BY <1>8, <2>1 DEF LastRow, Fail
  <2>2. CASE /\ Fail("server", "server") /\ unclean' = TRUE
             /\ held' = SubSeq(held, 1, Len(held) - 1)
    BY <1>8, <2>2 DEF LastRow, Fail
  <2>3. CASE /\ pc' = "close" /\ (req.engine = "mysql" => ~answer.more)
             /\ held' = held
             /\ UNCHANGED <<unclean, errors, kept>>
    BY <1>8, <2>3 DEF LastRow, Fail
  <2>4. CASE /\ pc' = "close" /\ (req.engine = "mysql" => ~answer.more)
             /\ held' = SubSeq(held, 1, Len(held) - 1)
             /\ UNCHANGED <<unclean, errors, kept>>
    BY <1>8, <2>4 DEF LastRow, Fail
  <2>5. QED
    BY <1>8, <2>1, <2>2, <2>3, <2>4, LastRowCases
<1>9. CASE Close
  <2>1. CASE err = None /\ Fail("query", "close") /\ unclean' = TRUE
    BY <1>9, <2>1 DEF Close, Fail
  <2>2. CASE UNCHANGED <<errors, kept, pc>> /\ (unclean' = unclean \/ err # None)
    BY <1>9, <2>2 DEF Close, Fail
  <2>3. QED
    BY <1>9, <2>1, <2>2, CloseCases
<1>10. CASE Report
  BY <1>10 DEF Report, Finish, ExitCode, SafeError
<1>11. CASE LookupTimesOut
  BY <1>11 DEF LookupTimesOut, Fail, Waiting
<1>12. CASE Tick
  BY <1>12 DEF Tick
<1>13. CASE InnerDone
  BY <1>13 DEF InnerDone
<1>14. CASE OuterDone
  BY <1>14 DEF OuterDone
<1>15. CASE Signal
  BY <1>15 DEF Signal
<1>16. ASSUME NEW why \in Errors \ {"config"}, WaitFails(why), why = "timeout" => clock > 0,
         why \in {"canceled", "deadline"} => why = innerErr
      PROVE  StageInv'
  BY <1>16, RewriteShape DEF WaitFails, Fail, Waiting
<1>17. CASE Write
  BY <1>17 DEF Write, Finish, ExitCode
<1>18. CASE UNCHANGED vars
  BY <1>18
<1>19. QED
  BY <1>1, <1>2, <1>3, <1>4, <1>5, <1>6, <1>7, <1>8, <1>9,
     <1>10, <1>11, <1>12, <1>13, <1>14, <1>15, <1>16, <1>17, <1>18, WaitSteps DEF Next, Work

\* Every step keeps the rows a prefix of what was sent, and all of it at the end.
LEMMA RowsStep == QueryInv /\ [Next]_vars => RowsInv'
<1> SUFFICES ASSUME QueryInv, [Next]_vars PROVE RowsInv'
  OBVIOUS
<1> USE LimitsAssumption, NoneAssumption
   DEF QueryInv, TypeOK, StateOK, Errors, vars, control, data, errors, time, report,
       NothingStaysOpen, StageInv, RowsInv
<1>1. CASE RefuseTarget
  BY <1>1 DEF RefuseTarget, Finish, ExitCode
<1>2. CASE ReadStdin
  BY <1>2 DEF ReadStdin, Finish, ExitCode
<1>3. CASE CheckInput
  <2>1. CASE Fail("config", "config")
    BY <1>3, <2>1 DEF CheckInput, Fail
  <2>2. CASE pc' = "open" /\ UNCHANGED <<errors, kept>>
    BY <1>3, <2>2 DEF CheckInput, Fail
  <2>3. QED
    BY <1>3, <2>1, <2>2, CheckInputCases
<1>4. CASE OpenLocal
  <2>1. CASE Call = "config" /\ Fail("config", "config") /\ UNCHANGED <<step, held>>
    BY <1>4, <2>1 DEF OpenLocal, Fail, Call
  <2>2. CASE Fail("limit", "limit") /\ UNCHANGED <<step, held>>
    BY <1>4, <2>2 DEF OpenLocal, Fail, Call
  <2>3. CASE Fail("query", "query") /\ UNCHANGED <<step, held>>
    BY <1>4, <2>3 DEF OpenLocal, Fail, Call
  <2>4. CASE Opened /\ UNCHANGED <<errors, kept>>
    BY <1>4, <2>4, CallStep DEF OpenLocal, Fail, Call
  <2>5. QED
    BY <1>4, <2>1, <2>2, <2>3, <2>4, OpenLocalCases
<1>5. CASE OpenRemote
  <2>1. CASE Fail("limit", "limit") /\ UNCHANGED <<step, held, answer>>
    BY <1>5, <2>1 DEF OpenRemote, Fail, Call
  <2>2. CASE Opened /\ answer' = answer /\ UNCHANGED <<errors, kept>> /\ pc' = "open"
    BY <1>5, <2>2, CallStep DEF OpenRemote, Fail, Call
  <2>3. CASE Opened /\ UNCHANGED <<errors, kept>> /\ answer' \in Answers(req) /\ pc' = "columns"
    BY <1>5, <2>3, CallStep DEF OpenRemote, Fail, Call
  <2>4. QED
    BY <1>5, <2>1, <2>2, <2>3, OpenRemoteCases
<1>6. CASE BuildColumns
  <2>1. CASE Fail("limit", "limit")
    BY <1>6, <2>1 DEF BuildColumns, Fail
  <2>2. CASE ~answer.wide /\ pc' = "rows" /\ UNCHANGED <<errors, kept>>
    BY <1>6, <2>2 DEF BuildColumns, Fail
  <2>3. QED
    BY <1>6, <2>1, <2>2, BuildColumnsCases
<1>7. CASE ReadRow
  <2>1. CASE Fail("limit", "limit")
    BY <1>7, <2>1 DEF ReadRow, AllRead, Fail
  <2>2. CASE Fail("query", "query")
    BY <1>7, <2>2 DEF ReadRow, AllRead, Fail
  <2>3. CASE /\ Sent(req, answer)[Len(kept) + 1] # "garbled"
             /\ kept' = Append(kept, Sent(req, answer)[Len(kept) + 1])
             /\ ~(Len(kept) >= MaxRows) /\ ~(Size(kept') > MaxResult)
             /\ UNCHANGED <<errors, pc>>
    BY <1>7, <2>3, RowStep DEF ReadRow, AllRead, Fail
  <2>4. QED
    BY <1>7, <2>1, <2>2, <2>3, ReadRowCases
<1>8. CASE LastRow
  <2>1. CASE Fail("query", "query") /\ UNCHANGED <<held, unclean>>
    BY <1>8, <2>1 DEF LastRow, Fail
  <2>2. CASE /\ Fail("server", "server") /\ unclean' = TRUE
             /\ held' = SubSeq(held, 1, Len(held) - 1)
    BY <1>8, <2>2 DEF LastRow, Fail
  <2>3. CASE /\ pc' = "close" /\ (req.engine = "mysql" => ~answer.more)
             /\ held' = held
             /\ UNCHANGED <<unclean, errors, kept>>
    BY <1>8, <2>3, ReadAll DEF LastRow, Fail
  <2>4. CASE /\ pc' = "close" /\ (req.engine = "mysql" => ~answer.more)
             /\ held' = SubSeq(held, 1, Len(held) - 1)
             /\ UNCHANGED <<unclean, errors, kept>>
    BY <1>8, <2>4, ReadAll DEF LastRow, Fail
  <2>5. QED
    BY <1>8, <2>1, <2>2, <2>3, <2>4, LastRowCases
<1>9. CASE Close
  <2>1. CASE err = None /\ Fail("query", "close") /\ unclean' = TRUE
    BY <1>9, <2>1 DEF Close, Fail
  <2>2. CASE UNCHANGED <<errors, kept, pc>> /\ (unclean' = unclean \/ err # None)
    BY <1>9, <2>2 DEF Close, Fail
  <2>3. QED
    BY <1>9, <2>1, <2>2, CloseCases
<1>10. CASE Report
  BY <1>10 DEF Report, Finish, ExitCode, SafeError
<1>11. CASE LookupTimesOut
  BY <1>11 DEF LookupTimesOut, Fail, Waiting
<1>12. CASE Tick
  BY <1>12 DEF Tick
<1>13. CASE InnerDone
  BY <1>13 DEF InnerDone
<1>14. CASE OuterDone
  BY <1>14 DEF OuterDone
<1>15. CASE Signal
  BY <1>15 DEF Signal
<1>16. ASSUME NEW why \in Errors \ {"config"}, WaitFails(why), why = "timeout" => clock > 0,
         why \in {"canceled", "deadline"} => why = innerErr
      PROVE  RowsInv'
  BY <1>16, RewriteShape DEF WaitFails, Fail, Waiting
<1>17. CASE Write
  BY <1>17 DEF Write, Finish, ExitCode
<1>18. CASE UNCHANGED vars
  BY <1>18
<1>19. QED
  BY <1>1, <1>2, <1>3, <1>4, <1>5, <1>6, <1>7, <1>8, <1>9,
     <1>10, <1>11, <1>12, <1>13, <1>14, <1>15, <1>16, <1>17, <1>18, WaitSteps DEF Next, Work

\* Every step keeps the origin of each error.
LEMMA ErrorStep == QueryInv /\ [Next]_vars => ErrorInv'
<1> SUFFICES ASSUME QueryInv, [Next]_vars PROVE ErrorInv'
  OBVIOUS
<1> USE LimitsAssumption, NoneAssumption
   DEF QueryInv, TypeOK, StateOK, Errors, vars, control, data, errors, time, report,
       StageInv, ErrorInv
<1>1. CASE RefuseTarget
  BY <1>1 DEF RefuseTarget, Finish, ExitCode
<1>2. CASE ReadStdin
  BY <1>2 DEF ReadStdin, Finish, ExitCode
<1>3. CASE CheckInput
  <2>1. CASE Fail("config", "config")
    BY <1>3, <2>1 DEF CheckInput, Fail
  <2>2. CASE pc' = "open" /\ UNCHANGED <<errors, kept>>
    BY <1>3, <2>2 DEF CheckInput, Fail
  <2>3. QED
    BY <1>3, <2>1, <2>2, CheckInputCases
<1>4. CASE OpenLocal
  <2>1. CASE Call = "config" /\ Fail("config", "config") /\ UNCHANGED <<step, held>>
    BY <1>4, <2>1, CallStep, PlanShape DEF OpenLocal, Fail, Call
  <2>2. CASE Fail("limit", "limit") /\ UNCHANGED <<step, held>>
    BY <1>4, <2>2, CallStep, PlanShape DEF OpenLocal, Fail, Call
  <2>3. CASE Fail("query", "query") /\ UNCHANGED <<step, held>>
    BY <1>4, <2>3, CallStep, PlanShape DEF OpenLocal, Fail, Call
  <2>4. CASE Opened /\ UNCHANGED <<errors, kept>>
    BY <1>4, <2>4, CallStep, PlanShape DEF OpenLocal, Fail, Call
  <2>5. QED
    BY <1>4, <2>1, <2>2, <2>3, <2>4, OpenLocalCases
<1>5. CASE OpenRemote
  <2>1. CASE Fail("limit", "limit") /\ UNCHANGED <<step, held, answer>>
    BY <1>5, <2>1 DEF OpenRemote, Fail, Call
  <2>2. CASE Opened /\ answer' = answer /\ UNCHANGED <<errors, kept>> /\ pc' = "open"
    BY <1>5, <2>2 DEF OpenRemote, Fail, Call
  <2>3. CASE Opened /\ UNCHANGED <<errors, kept>> /\ answer' \in Answers(req) /\ pc' = "columns"
    BY <1>5, <2>3 DEF OpenRemote, Fail, Call
  <2>4. QED
    BY <1>5, <2>1, <2>2, <2>3, OpenRemoteCases
<1>6. CASE BuildColumns
  <2>1. CASE Fail("limit", "limit")
    BY <1>6, <2>1 DEF BuildColumns, Fail
  <2>2. CASE ~answer.wide /\ pc' = "rows" /\ UNCHANGED <<errors, kept>>
    BY <1>6, <2>2 DEF BuildColumns, Fail
  <2>3. QED
    BY <1>6, <2>1, <2>2, BuildColumnsCases
<1>7. CASE ReadRow
  <2>1. CASE Fail("limit", "limit")
    BY <1>7, <2>1 DEF ReadRow, AllRead, Fail
  <2>2. CASE Fail("query", "query")
    BY <1>7, <2>2 DEF ReadRow, AllRead, Fail
  <2>3. CASE /\ Sent(req, answer)[Len(kept) + 1] # "garbled"
             /\ kept' = Append(kept, Sent(req, answer)[Len(kept) + 1])
             /\ ~(Len(kept) >= MaxRows) /\ ~(Size(kept') > MaxResult)
             /\ UNCHANGED <<errors, pc>>
    BY <1>7, <2>3 DEF ReadRow, AllRead, Fail
  <2>4. QED
    BY <1>7, <2>1, <2>2, <2>3, ReadRowCases
<1>8. CASE LastRow
  <2>1. CASE Fail("query", "query") /\ UNCHANGED <<held, unclean>>
    BY <1>8, <2>1 DEF LastRow, Fail
  <2>2. CASE /\ Fail("server", "server") /\ unclean' = TRUE
             /\ held' = SubSeq(held, 1, Len(held) - 1)
    BY <1>8, <2>2 DEF LastRow, Fail
  <2>3. CASE /\ pc' = "close" /\ (req.engine = "mysql" => ~answer.more)
             /\ held' = held
             /\ UNCHANGED <<unclean, errors, kept>>
    BY <1>8, <2>3 DEF LastRow, Fail
  <2>4. CASE /\ pc' = "close" /\ (req.engine = "mysql" => ~answer.more)
             /\ held' = SubSeq(held, 1, Len(held) - 1)
             /\ UNCHANGED <<unclean, errors, kept>>
    BY <1>8, <2>4 DEF LastRow, Fail
  <2>5. QED
    BY <1>8, <2>1, <2>2, <2>3, <2>4, LastRowCases
<1>9. CASE Close
  <2>1. CASE err = None /\ Fail("query", "close") /\ unclean' = TRUE
    BY <1>9, <2>1 DEF Close, Fail
  <2>2. CASE UNCHANGED <<errors, kept, pc>> /\ (unclean' = unclean \/ err # None)
    BY <1>9, <2>2 DEF Close, Fail
  <2>3. QED
    BY <1>9, <2>1, <2>2, CloseCases
<1>10. CASE Report
  BY <1>10 DEF Report, Finish, ExitCode, SafeError
<1>11. CASE LookupTimesOut
  BY <1>11 DEF LookupTimesOut, Fail, Waiting
<1>12. CASE Tick
  BY <1>12 DEF Tick
<1>13. CASE InnerDone
  BY <1>13 DEF InnerDone
<1>14. CASE OuterDone
  BY <1>14 DEF OuterDone
<1>15. CASE Signal
  BY <1>15 DEF Signal
<1>16. ASSUME NEW why \in Errors \ {"config"}, WaitFails(why), why = "timeout" => clock > 0,
         why \in {"canceled", "deadline"} => why = innerErr
      PROVE  ErrorInv'
  BY <1>16, RewriteShape DEF WaitFails, Fail, Waiting
<1>17. CASE Write
  BY <1>17 DEF Write, Finish, ExitCode
<1>18. CASE UNCHANGED vars
  BY <1>18
<1>19. QED
  BY <1>1, <1>2, <1>3, <1>4, <1>5, <1>6, <1>7, <1>8, <1>9,
     <1>10, <1>11, <1>12, <1>13, <1>14, <1>15, <1>16, <1>17, <1>18, WaitSteps DEF Next, Work

\* Every step keeps the flags Boolean.
LEMMA FlagsStep == FlagsOK /\ [Next]_vars => FlagsOK'
<1> SUFFICES ASSUME FlagsOK, [Next]_vars PROVE FlagsOK'
  OBVIOUS
<1>1. dialed' = dialed \/ dialed' = TRUE
  BY DEF Next, Work, RefuseTarget, ReadStdin, CheckInput, OpenLocal, OpenRemote, Write,
    BuildColumns, ReadRow, Add, LastRow, Close, Report, ServerFails, LookupTimesOut,
    Interrupted, WaitFails, Tick, InnerDone, OuterDone, Signal, Opened, Fail, Finish,
    vars, control, data, errors, time, report
<1>2. unclean' = unclean \/ unclean' = TRUE
  BY DEF Next, Work, RefuseTarget, ReadStdin, CheckInput, OpenLocal, OpenRemote, Write,
    BuildColumns, ReadRow, Add, LastRow, Close, Report, ServerFails, LookupTimesOut,
    Interrupted, WaitFails, Tick, InnerDone, OuterDone, Signal, Opened, Fail, Finish,
    vars, control, data, errors, time, report
<1>3. QED
  BY <1>1, <1>2, Zenon DEF FlagsOK

\* Every step keeps the answer one that the request can have.
LEMMA AnswerStep == AnswerOK /\ [Next]_vars => AnswerOK'
<1> SUFFICES ASSUME AnswerOK, [Next]_vars PROVE AnswerOK'
  OBVIOUS
<1>1. req' = req
  BY DEF Next, Work, RefuseTarget, ReadStdin, CheckInput, OpenLocal, OpenRemote, Write,
    BuildColumns, ReadRow, Add, LastRow, Close, Report, ServerFails, LookupTimesOut,
    Interrupted, WaitFails, Tick, InnerDone, OuterDone, Signal, Opened, Fail, Finish,
    vars, control, data, errors, time, report
<1>2. answer' = answer \/ answer' \in Answers(req)
  BY DEF Next, Work, RefuseTarget, ReadStdin, CheckInput, OpenLocal, OpenRemote, Write,
    BuildColumns, ReadRow, Add, LastRow, Close, Report, ServerFails, LookupTimesOut,
    Interrupted, WaitFails, Tick, InnerDone, OuterDone, Signal, Opened, Fail, Finish,
    vars, control, data, errors, time, report
<1>3. QED
  BY <1>1, <1>2 DEF AnswerOK

\* The invariant holds before anything is read.
LEMMA QueryInit == Init => QueryInv
<1> SUFFICES ASSUME Init PROVE QueryInv
  OBVIOUS
<1> USE LimitsAssumption, NoneAssumption DEF Init
<1>1. StateOK
  BY DEF StateOK, Errors
<1>2. AnswerOK
  BY DEF AnswerOK, Answers, NoAnswer
<1>3. FlagsOK
  BY Zenon DEF FlagsOK
<1>4. NothingStaysOpen
  BY EmptyResult DEF NothingStaysOpen
<1>5. StageInv
  BY DEF StageInv
<1>6. RowsInv
  BY DEF RowsInv
<1>7. ErrorInv
  BY DEF ErrorInv, Errors
<1>8. QED
  BY <1>1, <1>2, <1>3, <1>4, <1>5, <1>6, <1>7 DEF QueryInv, TypeOK

\* Every step of every query keeps the invariant: see its parts above.
LEMMA QueryStep == QueryInv /\ [Next]_vars => QueryInv'
<1> SUFFICES ASSUME QueryInv, [Next]_vars PROVE QueryInv'
  OBVIOUS
<1>1. AnswerOK /\ FlagsOK
  BY DEF QueryInv, TypeOK
<1>2. QED
  BY <1>1, TypesStep, FlagsStep, AnswerStep, StaysOpenStep, StageStep, RowsStep, ErrorStep
     DEF QueryInv, TypeOK

\* For every limit, the invariant holds throughout: the builder stays inside its
\* limits and every resource is closed in the end.
THEOREM QueryCorrect == Spec => []QueryInv
BY QueryInit, QueryStep, PTL DEF Spec

\* The invariant implies that an answer is whole: what was kept is what was
\* sent, and what was sent can only be all of it if it is inside the limit.
LEMMA InvWhole == QueryInv => AnswerIsWhole
<1> SUFFICES ASSUME QueryInv, exit = 0 PROVE AnswerIsWhole
  BY DEF AnswerIsWhole
<1>1. /\ err = None /\ raised = None /\ ~unclean
      /\ kept = Sent(req, answer) /\ ~answer.wide /\ ~answer.more
  BY DEF QueryInv, RowsInv, StageInv
<1>2. Len(kept) <= MaxRows /\ Size(kept) <= MaxResult
  BY DEF QueryInv, NothingStaysOpen
<1>3. kept = answer.rows
  BY <1>1, <1>2, SentRows DEF QueryInv, TypeOK, StateOK, AnswerOK
<1>4. QED
  BY <1>1, <1>2, <1>3 DEF AnswerIsWhole

\* For every limit, exit 0 means the whole answer from a clean session.
THEOREM AnswersAreWhole == Spec => []AnswerIsWhole
BY QueryCorrect, InvWhole, PTL

\* The exit code says why: until the command ends there is nothing to say, and
\* what it says in the end follows from the origin of the error.
LEMMA SaysWhyStep == QueryInv /\ ErrorSaysWhy /\ [Next]_vars => ErrorSaysWhy'
<1> SUFFICES ASSUME QueryInv, ErrorSaysWhy, [Next]_vars PROVE ErrorSaysWhy'
  OBVIOUS
<1>1. QueryInv'
  BY QueryStep
<1>2. CASE pc' # "done"
  <2>1. exit' = None /\ told' = None
    BY <1>1, <1>2 DEF QueryInv, NothingStaysOpen, ErrorInv
  <2>2. QED
    BY <2>1, NoneAssumption DEF ErrorSaysWhy, Errors
<1>3. CASE pc' = "done" /\ RefuseTarget
  BY <1>3, NoneAssumption
     DEF RefuseTarget, Finish, ExitCode, ErrorSaysWhy, Errors, QueryInv, StageInv, data, errors, time
<1>4. CASE pc' = "done" /\ ReadStdin
  BY <1>4, NoneAssumption
     DEF ReadStdin, Finish, ExitCode, ErrorSaysWhy, Errors, QueryInv, StageInv, data, errors, time
<1>5. CASE pc' = "done" /\ Report
  <2> USE NoneAssumption DEF Errors
  <2> DEFINE t == IF err = "metadata" THEN "limit" ELSE err
  <2>1. /\ UNCHANGED <<dialed, err, raised, clock, outerErr, req>>
        /\ exit' = ExitCode(told')
        /\ \/ err # None /\ told' = SafeError(t)
           \/ err = None /\ told' \in {outerErr, "limit"}
    BY <1>5 DEF Report, Finish, errors, time
  <2>2. /\ StageInv /\ ErrorInv
        /\ err \in Errors \cup {None} /\ raised \in Errors \cup {None}
        /\ outerErr \in {None, "canceled", "deadline"}
    BY DEF QueryInv, TypeOK, StateOK
  <2>3. err # None => SafeError(t) \in {"config", "limit", "canceled", "deadline", "query"}
    BY <2>2 DEF SafeError
  <2>4. exit' = 2 => ~dialed'
    <3>1. exit' = 2 => told' = "config"
      BY <2>1 DEF ExitCode
    <3>2. told' = "config" => err = "config"
      BY <2>1, <2>2 DEF SafeError
    <3>3. QED
      BY <2>1, <2>2, <3>1, <3>2 DEF ErrorInv
  <2>5. exit' = 124 => clock' = 2 \/ raised' \in {"timeout", "deadline"}
    <3>1. exit' = 124 => told' = "deadline"
      BY <2>1 DEF ExitCode
    <3>2. told' = "deadline" => outerErr = "deadline" \/ clock = 2 \/ err \in {"timeout", "deadline"}
      BY <2>1, <2>2 DEF SafeError
    <3>3. QED
      BY <2>1, <2>2, <3>1, <3>2 DEF ErrorInv
  <2>6. raised' \in {"limit", "metadata"} => told' = "limit"
    BY <2>1, <2>2 DEF SafeError, ErrorInv, StageInv
  <2>7. raised' = "bytes" => told' = "limit" \/ (req'.engine = "mysql" /\ exit' \notin {0, 2})
    <3>1. CASE err = "limit"
      BY <2>1, <3>1 DEF SafeError
    <3>2. CASE err = "server" /\ req.engine = "mysql"
      <4>1. told' \in {"canceled", "deadline", "query"}
        BY <2>1, <2>2, <3>2 DEF SafeError
      <4>2. exit' \in {1, 124}
        BY <2>1, <4>1 DEF ExitCode
      <4>3. QED
        BY <2>1, <3>2, <4>2
    <3>3. QED
      BY <2>1, <2>2, <3>1, <3>2 DEF ErrorInv
  <2>8. told' = "canceled" => outerErr' = "canceled"
    BY <2>1, <2>2 DEF SafeError, ErrorInv
  <2>9. QED
    BY <2>4, <2>5, <2>6, <2>7, <2>8 DEF ErrorSaysWhy
<1>6. CASE pc' = "done" /\ Write
  BY <1>6, NoneAssumption
     DEF Write, Finish, ExitCode, ErrorSaysWhy, Errors, QueryInv, StageInv, data, errors, time
<1>7. CASE pc = "done" /\ UNCHANGED vars
  BY <1>7 DEF ErrorSaysWhy, vars, control, data, errors, time, report
<1>8. pc' = "done" =>
          RefuseTarget \/ ReadStdin \/ Report \/ Write \/ (pc = "done" /\ UNCHANGED vars)
  BY DEF Next, Work, CheckInput, OpenLocal, OpenRemote, BuildColumns, ReadRow, Add, LastRow,
         Close, ServerFails, LookupTimesOut, Interrupted, WaitFails, Waiting, Tick, InnerDone,
         OuterDone, Signal, Opened, Fail, vars, control, data, errors, time, report
<1>9. QED
  BY <1>2, <1>3, <1>4, <1>5, <1>6, <1>7, <1>8

\* For every limit, the exit code says why the command ended.
THEOREM ExitCodesSayWhy == Spec => []ErrorSaysWhy
<1>1. Init => ErrorSaysWhy
  BY NoneAssumption DEF Init, ErrorSaysWhy, Errors
<1>2. QED
  BY <1>1, QueryCorrect, SaysWhyStep, PTL DEF Spec

==============================================================================
