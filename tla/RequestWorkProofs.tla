------------------------- MODULE RequestWorkProofs -------------------------
(***************************************************************************)
(* Proofs about RequestWork, for any set of requests, fields and values,   *)
(* any limit, any message sizes and any nesting.                           *)
(***************************************************************************)
EXTENDS RequestWork, ContextProofs, TLAPS

-----------------------------------------------------------------------------
(* The error taxonomy.                                                     *)

\* The rounding of _render: at least a second, and at most a millisecond
\* (exclusive) less than asked for.
LEMMA HeaderBounds ==
    ASSUME NEW micros \in Int
    PROVE  /\ RetryAfterHeader(micros) \in Nat \ {0}
           /\ RetryAfterHeader(micros) * 1000000 > micros - 1000
  BY DEF RetryAfterHeader

-----------------------------------------------------------------------------
(* Bodies.                                                                 *)

\* What is known of a request's counters in each state of its body.
BodyState(r) ==
    /\ stream[r] = "new" => sent[r] = 0 /\ total[r] = 0 /\ handed[r] = 0 /\ sizes[r] = <<>>
    /\ stream[r] = "trusted" =>
           /\ declared[r] \in 0 .. Limit
           /\ handed[r] = sent[r] /\ sent[r] <= declared[r]
           /\ sizes[r] = <<declared[r]>>
    /\ stream[r] = "metered" =>
           /\ declared[r] = Absent
           /\ handed[r] = sent[r] /\ total[r] = sent[r] /\ sent[r] <= Limit
           /\ sizes[r] = <<>>
    /\ stream[r] = "over" =>
           /\ declared[r] = Absent
           /\ total[r] = sent[r] /\ sent[r] > Limit /\ handed[r] <= Limit
           /\ sizes[r] = <<>>
    /\ stream[r] = "complete" => handed[r] = sent[r] /\ sent[r] <= Limit /\ sizes[r] = <<sent[r]>>
    /\ stream[r] = "refused" =>
           /\ declared[r] \notin 0 .. Limit \cup {Absent}
           /\ handed[r] = 0 /\ sizes[r] = <<>>
    /\ stream[r] = "gone" =>
           /\ handed[r] <= Limit
           /\ sizes[r] = IF declared[r] = Absent THEN <<>> ELSE <<declared[r]>>

BodyInv == BodyTypeOK /\ \A r \in Requests : BodyState(r)

LEMMA BodyInitOK == BodyInit => BodyInv
<1>1. SUFFICES ASSUME BodyInit PROVE BodyInv
  OBVIOUS
<1>2. 0 \in 0 .. MaxSent /\ 0 \in Nat /\ <<>> \in Seq(Nat) /\ "new" \in Streams
  BY ChunksAssumption DEF Streams
<1>3. BodyTypeOK
  BY <1>1, <1>2 DEF BodyInit, BodyTypeOK
<1>4. \A r \in Requests : BodyState(r)
  BY <1>1 DEF BodyInit, BodyState
<1>5. QED
  BY <1>3, <1>4 DEF BodyInv

LEMMA TrustOK ==
    ASSUME NEW r \in Requests, BodyInv, Trust(r)
    PROVE  BodyInv'
<1>1. BodyTypeOK /\ BodyState(r)
  BY DEF BodyInv
<1>2. declared[r] \in Nat /\ "trusted" \in Streams
  BY LimitAssumption DEF Trust, Streams
<1>3. /\ stream' = [stream EXCEPT ![r] = "trusted"]
      /\ sizes' = [sizes EXCEPT ![r] = Append(@, declared[r])]
      /\ stream[r] = "new" /\ declared[r] \in 0 .. Limit
      /\ UNCHANGED <<declared, sent, total, handed>>
  BY DEF Trust, Observe
<1>4. sizes[r] = <<>> /\ Append(<<>>, declared[r]) = <<declared[r]>>
      /\ <<declared[r]>> \in Seq(Nat)
  BY <1>1, <1>2, <1>3 DEF BodyState
<1>5. sizes' = [sizes EXCEPT ![r] = <<declared[r]>>]
  BY <1>3, <1>4
<1>6. BodyTypeOK'
  BY <1>1, <1>2, <1>3, <1>4, <1>5 DEF BodyTypeOK
<1>7. ASSUME NEW q \in Requests PROVE BodyState(q)'
  <2>1. CASE q # r
    BY <1>1, <1>3, <1>5, <2>1 DEF BodyInv, BodyTypeOK, BodyState
  <2>2. CASE q = r
    <3>1. /\ stream'[r] = "trusted" /\ sizes'[r] = <<declared[r]>>
          /\ handed'[r] = 0 /\ sent'[r] = 0 /\ declared'[r] = declared[r]
      BY <1>1, <1>3, <1>5 DEF BodyTypeOK, BodyState
    <3>2. QED
      BY <1>3, <2>2, <3>1, LimitAssumption DEF BodyState
  <2>3. QED
    BY <2>1, <2>2
<1>8. QED
  BY <1>6, <1>7 DEF BodyInv

LEMMA RefuseOK ==
    ASSUME NEW r \in Requests, BodyInv, Refuse(r)
    PROVE  BodyInv'
  BY LimitAssumption, ChunksAssumption
     DEF Refuse, BodyInv, BodyTypeOK, BodyState, Streams, Lengths, Absent, Malformed

LEMMA MeterOK ==
    ASSUME NEW r \in Requests, BodyInv, Meter(r)
    PROVE  BodyInv'
  BY LimitAssumption, ChunksAssumption
     DEF Meter, BodyInv, BodyTypeOK, BodyState, Streams, Lengths, Absent, Malformed

LEMMA ReceiveTrustedOK ==
    ASSUME NEW r \in Requests, BodyInv, ReceiveTrusted(r)
    PROVE  BodyInv'
<1>1. PICK c \in Chunks, more \in BOOLEAN : Message(r, c, more) /\ HandOn(r, c, more)
  BY DEF ReceiveTrusted
<1>2. /\ stream[r] = "trusted" /\ UNCHANGED <<declared, total, sizes>>
      /\ c \in Nat /\ MaxSent \in Nat
      /\ sent[r] + c <= MaxSent /\ sent[r] + c <= declared[r]
      /\ more <=> sent[r] + c < declared[r]
      /\ sent' = [sent EXCEPT ![r] = @ + c]
      /\ handed' = [handed EXCEPT ![r] = @ + c]
      /\ stream' = [stream EXCEPT ![r] = IF more THEN @ ELSE "complete"]
  BY <1>1, ChunksAssumption DEF ReceiveTrusted, Message, HandOn
<1>3. BodyTypeOK /\ BodyState(r)
  BY DEF BodyInv
<1>4. BodyTypeOK'
  <2>1. sent[r] + c \in 0 .. MaxSent /\ handed[r] + c \in 0 .. MaxSent
    BY <1>2, <1>3 DEF BodyTypeOK, BodyState
  <2>2. "trusted" \in Streams /\ "complete" \in Streams
    BY DEF Streams
  <2>3. QED
    BY <1>2, <1>3, <2>1, <2>2 DEF BodyTypeOK
<1>5. ASSUME NEW q \in Requests PROVE BodyState(q)'
  <2>1. CASE q # r
    BY <1>2, <1>3, <2>1 DEF BodyInv, BodyTypeOK, BodyState
  <2>2. CASE q = r
    <3>1. /\ handed[r] = sent[r] /\ declared[r] \in 0 .. Limit
          /\ sizes[r] = <<declared[r]>> /\ sent[r] \in Int
      BY <1>2, <1>3 DEF BodyTypeOK, BodyState
    <3>2. /\ sent'[r] = sent[r] + c /\ handed'[r] = sent'[r]
          /\ declared'[r] = declared[r] /\ sizes'[r] = <<declared[r]>>
          /\ stream'[r] = IF more THEN "trusted" ELSE "complete"
      BY <1>2, <1>3, <3>1 DEF BodyTypeOK
    <3>3. CASE more
      BY <1>2, <2>2, <3>1, <3>2, <3>3, LimitAssumption DEF BodyState
    <3>4. CASE ~more
      <4>1. sent'[r] = declared[r]
        BY <1>2, <3>1, <3>2, <3>4, LimitAssumption
      <4>2. QED
        BY <2>2, <3>1, <3>2, <3>4, <4>1, LimitAssumption DEF BodyState
    <3>5. QED
      BY <3>3, <3>4
  <2>3. QED
    BY <2>1, <2>2
<1>6. QED
  BY <1>4, <1>5 DEF BodyInv

LEMMA ReceiveMeteredOK ==
    ASSUME NEW r \in Requests, BodyInv, ReceiveMetered(r)
    PROVE  BodyInv'
<1>1. PICK c \in Chunks, more \in BOOLEAN :
          /\ Message(r, c, more) /\ Count(r, c) /\ total[r] + c <= Limit
          /\ HandOn(r, c, more)
          /\ IF more THEN UNCHANGED sizes ELSE Observe(r, total[r] + c)
  BY DEF ReceiveMetered
<1>2. /\ stream[r] \in {"metered", "over"} /\ UNCHANGED declared
      /\ c \in Nat /\ MaxSent \in Nat /\ Limit \in Nat
      /\ sent[r] + c <= MaxSent /\ total[r] + c <= Limit
      /\ sent' = [sent EXCEPT ![r] = @ + c]
      /\ total' = [total EXCEPT ![r] = @ + c]
      /\ handed' = [handed EXCEPT ![r] = @ + c]
      /\ stream' = [stream EXCEPT ![r] = IF more THEN @ ELSE "complete"]
      /\ sizes' = [sizes EXCEPT ![r] = IF more THEN @ ELSE Append(@, total[r] + c)]
  <2>1. BodyTypeOK
    BY DEF BodyInv
  <2>2. QED
    BY <1>1, <2>1, ChunksAssumption, LimitAssumption
       DEF ReceiveMetered, Message, HandOn, Count, Observe, BodyTypeOK
<1>3. BodyTypeOK /\ BodyState(r)
  BY DEF BodyInv
<1>4. /\ sent[r] \in Nat /\ total[r] \in Nat /\ handed[r] \in Nat
      /\ stream[r] = "metered" /\ handed[r] = sent[r] /\ total[r] = sent[r]
      /\ sizes[r] = <<>> /\ declared[r] = Absent
  \* An oversized body cannot come back under the limit.
  BY <1>2, <1>3 DEF BodyTypeOK, BodyState
<1>5. DEFINE n == sent[r] + c
<1>6. n \in 0 .. MaxSent /\ n <= Limit /\ Append(<<>>, n) = <<n>> /\ <<n>> \in Seq(Nat)
  BY <1>2, <1>4
<1>7. /\ sent' = [sent EXCEPT ![r] = n] /\ total' = [total EXCEPT ![r] = n]
      /\ handed' = [handed EXCEPT ![r] = n]
      /\ sizes' = [sizes EXCEPT ![r] = IF more THEN <<>> ELSE <<n>>]
  BY <1>2, <1>4, <1>6
<1>8. BodyTypeOK'
  <2>1. "metered" \in Streams /\ "complete" \in Streams /\ <<>> \in Seq(Nat) /\ n \in Nat
    BY <1>6 DEF Streams
  <2>2. QED
    BY <1>2, <1>3, <1>4, <1>6, <1>7, <2>1 DEF BodyTypeOK
<1>9. ASSUME NEW q \in Requests PROVE BodyState(q)'
  <2>1. CASE q # r
    BY <1>2, <1>3, <1>7, <2>1 DEF BodyInv, BodyTypeOK, BodyState
  <2>2. CASE q = r
    <3>1. /\ sent'[r] = n /\ total'[r] = n /\ handed'[r] = n
          /\ sizes'[r] = IF more THEN <<>> ELSE <<n>>
          /\ stream'[r] = IF more THEN "metered" ELSE "complete"
          /\ declared'[r] = Absent
      BY <1>2, <1>3, <1>4, <1>7 DEF BodyTypeOK
    <3>2. CASE more
      BY <1>6, <2>2, <3>1, <3>2 DEF BodyState
    <3>3. CASE ~more
      BY <1>6, <2>2, <3>1, <3>3 DEF BodyState
    <3>4. QED
      BY <3>2, <3>3
  <2>3. QED
    BY <2>1, <2>2
<1>10. QED
  BY <1>8, <1>9 DEF BodyInv

LEMMA OverrunOK ==
    ASSUME NEW r \in Requests, BodyInv, Overrun(r)
    PROVE  BodyInv'
<1>1. PICK c \in Chunks, more \in BOOLEAN :
          Message(r, c, more) /\ Count(r, c) /\ total[r] + c > Limit
  BY DEF Overrun
<1>2. BodyTypeOK /\ BodyState(r)
  BY DEF BodyInv
<1>3. /\ c \in Nat /\ MaxSent \in Nat /\ Limit \in Nat
      /\ sent[r] + c <= MaxSent /\ total[r] + c > Limit
      /\ sent' = [sent EXCEPT ![r] = @ + c]
      /\ total' = [total EXCEPT ![r] = @ + c]
      /\ stream' = [stream EXCEPT ![r] = "over"]
      /\ stream[r] \in {"metered", "over"}
      /\ UNCHANGED <<declared, handed, sizes>>
  BY <1>1, ChunksAssumption, LimitAssumption DEF Overrun, Message, Count
<1>4. /\ sent[r] \in Nat /\ total[r] = sent[r] /\ handed[r] <= Limit
      /\ sizes[r] = <<>> /\ declared[r] = Absent
  BY <1>2, <1>3 DEF BodyTypeOK, BodyState
<1>5. BodyTypeOK'
  <2>1. sent[r] + c \in 0 .. MaxSent /\ total[r] + c \in Nat /\ "over" \in Streams
    BY <1>3, <1>4 DEF Streams
  <2>2. QED
    BY <1>2, <1>3, <2>1 DEF BodyTypeOK
<1>6. ASSUME NEW q \in Requests PROVE BodyState(q)'
  <2>1. CASE q # r
    BY <1>2, <1>3, <2>1 DEF BodyInv, BodyTypeOK, BodyState
  <2>2. CASE q = r
    <3>1. /\ stream'[r] = "over" /\ declared'[r] = Absent
          /\ total'[r] = sent'[r] /\ sent'[r] > Limit
          /\ handed'[r] <= Limit /\ sizes'[r] = <<>>
      BY <1>2, <1>3, <1>4 DEF BodyTypeOK
    <3>2. QED
      BY <2>2, <3>1 DEF BodyState
  <2>3. QED
    BY <2>1, <2>2
<1>7. QED
  BY <1>5, <1>6 DEF BodyInv

LEMMA DisconnectOK ==
    ASSUME NEW r \in Requests, BodyInv, Disconnect(r)
    PROVE  BodyInv'
<1>1. BodyTypeOK /\ BodyState(r)
  BY DEF BodyInv
<1>2. /\ stream' = [stream EXCEPT ![r] = "gone"]
      /\ stream[r] \in {"trusted", "metered", "over"}
      /\ UNCHANGED <<declared, sent, total, handed, sizes>>
  BY DEF Disconnect, Reading
<1>3. handed[r] <= Limit
  BY <1>1, <1>2, LimitAssumption, ChunksAssumption DEF BodyTypeOK, BodyState
<1>4. sizes[r] = IF declared[r] = Absent THEN <<>> ELSE <<declared[r]>>
  BY <1>1, <1>2, LimitAssumption DEF BodyState, Absent
<1>5. BodyTypeOK'
  BY <1>1, <1>2 DEF BodyTypeOK, Streams
<1>6. ASSUME NEW q \in Requests PROVE BodyState(q)'
  <2>1. CASE q # r
    BY <1>1, <1>2, <2>1 DEF BodyInv, BodyTypeOK, BodyState
  <2>2. CASE q = r
    <3>1. /\ stream'[r] = "gone" /\ handed'[r] = handed[r]
          /\ sizes'[r] = sizes[r] /\ declared'[r] = declared[r]
      BY <1>1, <1>2 DEF BodyTypeOK
    <3>2. QED
      BY <1>3, <1>4, <2>2, <3>1 DEF BodyState
  <2>3. QED
    BY <2>1, <2>2
<1>7. QED
  BY <1>5, <1>6 DEF BodyInv

LEMMA BodyUnchanged == BodyInv /\ UNCHANGED bodyVars => BodyInv'
  BY DEF bodyVars, BodyInv, BodyTypeOK, BodyState

\* What the request does with its body besides is of no concern here.
LEMMA BodyNext == BodyInv /\ [Next]_vars => BodyInv'
<1>1. SUFFICES ASSUME BodyInv, [Next]_vars PROVE BodyInv'
  OBVIOUS
<1>2. ASSUME NEW r \in Requests, Arrive(r) PROVE BodyInv'
  BY <1>1, <1>2, BodyUnchanged DEF Arrive
<1>3. ASSUME NEW r \in Requests, CheckSize(r) PROVE BodyInv'
  BY <1>1, <1>3, TrustOK, MeterOK, RefuseOK DEF CheckSize
<1>4. ASSUME NEW r \in Requests, Read(r) PROVE BodyInv'
  BY <1>1, <1>4, ReceiveTrustedOK, ReceiveMeteredOK, DisconnectOK DEF Read, Receive
<1>5. ASSUME NEW r \in Requests, ReadTooMuch(r) PROVE BodyInv'
  BY <1>1, <1>5, OverrunOK DEF ReadTooMuch
<1>6. ASSUME NEW r \in Requests,
             UseScope(r) \/ HandlerRaises(r) \/ HandlerReturns(r) \/ Unwind(r) \/ Respond(r)
      PROVE  BodyInv'
  BY <1>1, <1>6, BodyUnchanged DEF UseScope, HandlerRaises, HandlerReturns, Unwind, Respond
<1>7. ASSUME AllDone \/ UNCHANGED vars PROVE BodyInv'
  BY <1>1, <1>7, BodyUnchanged DEF AllDone, vars
<1>8. QED
  BY <1>1, <1>2, <1>3, <1>4, <1>5, <1>6, <1>7 DEF Next

\* BodyInv is an invariant of the composition.
THEOREM BodyInvariant == Spec => []BodyInv
<1>1. Init => BodyInv
  BY BodyInitOK DEF Init
<1>2. QED
  BY <1>1, BodyNext, PTL DEF Spec

\* NeverMoreThanLimit: whatever comes in, in whatever messages, the
\* application is never handed more of a body than the limit.
THEOREM LimitHolds == Spec => []NeverMoreThanLimit
<1>1. ASSUME BodyInv, NEW r \in Requests PROVE handed[r] <= Limit
  <2>1. stream[r] \in Streams /\ sent[r] \in Nat /\ BodyState(r) /\ Limit \in Nat
    BY <1>1, LimitAssumption, ChunksAssumption DEF BodyInv, BodyTypeOK
  <2>2. CASE stream[r] \in {"new", "refused"}
    BY <2>1, <2>2 DEF BodyState
  <2>3. CASE stream[r] \in {"metered", "over", "complete", "gone"}
    BY <2>1, <2>3 DEF BodyState
  <2>4. CASE stream[r] = "trusted"
    <3>1. handed[r] = sent[r] /\ sent[r] <= declared[r] /\ declared[r] \in 0 .. Limit
      BY <2>1, <2>4 DEF BodyState
    <3>2. QED
      BY <2>1, <3>1
  <2>5. QED
    BY <2>1, <2>2, <2>3, <2>4 DEF Streams
<1>2. BodyInv => NeverMoreThanLimit
  BY <1>1 DEF NeverMoreThanLimit
<1>3. QED
  BY <1>2, BodyInvariant, PTL

\* OnlyExcessIsRefused: a breach is a declared or counted excess of that very
\* body, however many other bodies are metered beside it.
THEOREM RefusalsAreJustified == Spec => []OnlyExcessIsRefused
<1>1. BodyInv => OnlyExcessIsRefused
  BY DEF BodyInv, BodyState, OnlyExcessIsRefused
<1>2. QED
  BY <1>1, BodyInvariant, PTL

\* SizesAreTrue: the size histogram holds each body that was received
\* completely, once and with its true size, none that was refused, and of one
\* that broke off only its declaration.
THEOREM SizesRecordedOnce == Spec => []SizesAreTrue
<1>1. BodyInv => SizesAreTrue
  BY DEF BodyInv, BodyState, SizesAreTrue
<1>2. QED
  BY <1>1, BodyInvariant, PTL
-----------------------------------------------------------------------------
(* Answers.                                                                *)

Errors == {NoError, Invalid, Unhandled}
          \cup {App(e) : e \in AppErrors}
          \cup {Http(s) : s \in HttpStatuses \cup {400}}

\* What the handler registered for an exception makes of it.
Rendered(e, body) ==
    \/ e.type = "app" /\ body = RenderAppError(e.app)
    \/ e.type = "http" /\ body = RenderHttpException(e.status)
    \/ e.type = "invalid" /\ body = RenderInvalid
    \/ e.type = "unhandled" /\ body = RenderUnhandled

\* An envelope comes from the exception that left the handler, or from the
\* size limit; and only a body that was too large makes that exception.
AnswerState(r) ==
    /\ err[r] \in Errors
    /\ err[r].type = "app" /\ err[r].app.kind = "PayloadTooLargeError" => sent[r] > Limit
    /\ IsError(r) =>
        /\ pc[r] = "answered"
        /\ \/ Rendered(err[r], answer[r].body)
           \/ err[r] = NoError /\ answer[r].body = RenderRejected(400)
           \/ err[r] = NoError /\ answer[r].body = RenderRejected(413) /\ declared[r] > Limit

AnswerInv ==
    /\ BodyInv
    /\ pc \in [Requests -> {"new", "size", "handler", "raising", "answered"}]
    /\ err \in [Requests -> Errors]
    /\ DOMAIN answer = Requests
    /\ \A r \in Requests : pc[r] \in {"new", "size", "handler"} => err[r] = NoError
    /\ \A r \in Requests : AnswerState(r)

LEMMA AnswerInitOK == Init => AnswerInv
<1>1. SUFFICES ASSUME Init PROVE AnswerInv
  OBVIOUS
<1>2. BodyInv
  BY <1>1, BodyInitOK DEF Init
<1>3. ASSUME NEW r \in Requests
      PROVE  err[r] = NoError /\ answer[r].body = NoError /\ pc[r] = "new"
  BY <1>1 DEF Init, NoAnswer
<1>4. NoError \in Errors /\ NoError.type = "none"
  BY DEF Errors, NoError
<1>5. ASSUME NEW r \in Requests PROVE AnswerState(r)
  BY <1>3, <1>4 DEF AnswerState, IsError
<1>6. QED
  BY <1>1, <1>2, <1>3, <1>4, <1>5 DEF Init, AnswerInv

\* What a step leaves alone of another request's answer, or of this one's.
LEMMA AnswerKept ==
    ASSUME BodyTypeOK, NEW r \in Requests, AnswerState(r),
           err'[r] = err[r], answer'[r] = answer[r], declared'[r] = declared[r],
           sent'[r] \in Int, sent'[r] >= sent[r],
           IsError(r) => pc'[r] = "answered"
    PROVE  AnswerState(r)'
<1>1. sent[r] \in Int /\ Limit \in Int
  BY LimitAssumption, ChunksAssumption DEF BodyTypeOK
<1>2. QED
  BY <1>1 DEF AnswerState, IsError, Rendered
\* A body's length is declared once, and what was received stays received.
LEMMA BodyGrows ==
    ASSUME BodyInv, BodyInv', [Next]_vars, NEW q \in Requests
    PROVE  declared' = declared /\ sent'[q] \in Int /\ sent'[q] >= sent[q]
<1>1. sent[q] \in Int /\ sent'[q] \in Int
  BY ChunksAssumption DEF BodyInv, BodyTypeOK
<1>2. ASSUME NEW r \in Requests, NEW c \in Chunks, NEW more \in BOOLEAN, Message(r, c, more)
      PROVE  declared' = declared /\ sent'[q] >= sent[q]
  <2>1. c \in Nat /\ declared' = declared /\ sent' = [sent EXCEPT ![r] = @ + c]
    BY <1>2, ChunksAssumption DEF Message
  <2>2. QED
    BY <1>1, <2>1 DEF BodyInv, BodyTypeOK
<1>3. ASSUME NEW r \in Requests, Read(r) \/ ReadTooMuch(r)
      PROVE  declared' = declared /\ sent'[q] >= sent[q]
  BY <1>1, <1>2, <1>3
     DEF Read, ReadTooMuch, Receive, ReceiveTrusted, ReceiveMetered, Overrun, Disconnect
<1>4. ASSUME NEW r \in Requests, CheckSize(r)
      PROVE  declared' = declared /\ sent' = sent
  BY <1>4 DEF CheckSize, Trust, Meter, Refuse
<1>5. ASSUME NEW r \in Requests,
             Arrive(r) \/ UseScope(r) \/ HandlerRaises(r) \/ HandlerReturns(r)
                 \/ Unwind(r) \/ Respond(r)
      PROVE  declared' = declared /\ sent' = sent
  BY <1>5 DEF Arrive, UseScope, HandlerRaises, HandlerReturns, Unwind, Respond, bodyVars
<1>6. ASSUME AllDone \/ UNCHANGED vars
      PROVE  declared' = declared /\ sent' = sent
  BY <1>6 DEF AllDone, vars, bodyVars
<1>7. QED
  BY <1>1, <1>3, <1>4, <1>5, <1>6 DEF Next

\* A step that only moves a request on, to where nothing was raised or
\* answered by it.
LEMMA MoveOK ==
    ASSUME AnswerInv, BodyInv', declared' = declared, UNCHANGED <<err, answer>>,
           \A q \in Requests : sent'[q] \in Int /\ sent'[q] >= sent[q],
           pc' \in [Requests -> {"new", "size", "handler", "raising", "answered"}],
           \A q \in Requests : \/ pc'[q] = pc[q]
                               \/ pc[q] \in {"new", "size", "handler"}
                                  /\ pc'[q] \in {"size", "handler", "answered"}
    PROVE  AnswerInv'
<1>1. ASSUME NEW q \in Requests PROVE AnswerState(q)'
  <2>1. BodyTypeOK /\ AnswerState(q)
    BY DEF AnswerInv, BodyInv
  <2>2. IsError(q) => pc'[q] = "answered"
    BY <2>1 DEF AnswerState
  <2>3. QED
    BY <2>1, <2>2, AnswerKept
<1>2. QED
  BY <1>1 DEF AnswerInv

\* A handler that raises has not answered.
LEMMA RaiseOK ==
    ASSUME AnswerInv, BodyInv', declared' = declared,
           \A q \in Requests : sent'[q] \in Int /\ sent'[q] >= sent[q],
           NEW r \in Requests, pc[r] = "handler", NEW e \in Errors, Raise(r, e),
           e.type = "app" /\ e.app.kind = "PayloadTooLargeError" => sent'[r] > Limit
    PROVE  AnswerInv'
<1>1. /\ pc' = [pc EXCEPT ![r] = "raising"] /\ err' = [err EXCEPT ![r] = e]
      /\ answer' = answer
  BY DEF Raise
<1>2. /\ pc \in [Requests -> {"new", "size", "handler", "raising", "answered"}]
      /\ err \in [Requests -> Errors] /\ BodyTypeOK
  BY DEF AnswerInv, BodyInv
<1>3. ASSUME NEW q \in Requests PROVE AnswerState(q)'
  <2>1. AnswerState(q)
    BY DEF AnswerInv
  <2>2. CASE q = r
    <3>1. ~IsError(r) /\ answer'[r] = answer[r] /\ err'[r] = e
      BY <1>1, <1>2, <2>1, <2>2 DEF AnswerState
    <3>2. QED
      BY <2>2, <3>1 DEF AnswerState, IsError
  <2>3. CASE q # r
    <3>1. /\ err'[q] = err[q] /\ pc'[q] = pc[q] /\ answer'[q] = answer[q]
          /\ declared'[q] = declared[q]
      BY <1>1, <1>2, <2>3
    <3>2. IsError(q) => pc'[q] = "answered"
      BY <2>1, <3>1 DEF AnswerState
    <3>3. QED
      BY <1>2, <2>1, <3>1, <3>2, AnswerKept
  <2>4. QED
    BY <2>2, <2>3
<1>4. QED
  BY <1>1, <1>2, <1>3 DEF AnswerInv

\* A request is answered by the size limit or by an exception handler.
LEMMA ReplyOK ==
    ASSUME AnswerInv, BodyInv', declared' = declared, UNCHANGED err,
           \A q \in Requests : sent'[q] \in Int /\ sent'[q] >= sent[q],
           NEW r \in Requests, NEW id, NEW body, Reply(r, id, body),
           pc' = [pc EXCEPT ![r] = "answered"],
           \/ Rendered(err[r], body)
           \/ err[r] = NoError /\ body = RenderRejected(400)
           \/ err[r] = NoError /\ body = RenderRejected(413) /\ declared[r] > Limit
    PROVE  AnswerInv'
<1>1. /\ pc \in [Requests -> {"new", "size", "handler", "raising", "answered"}]
      /\ DOMAIN answer = Requests /\ BodyTypeOK
      /\ answer' = [answer EXCEPT ![r] = [id |-> id, body |-> body]]
  BY DEF AnswerInv, BodyInv, Reply
<1>2. ASSUME NEW q \in Requests PROVE AnswerState(q)'
  <2>1. AnswerState(q)
    BY DEF AnswerInv
  <2>2. CASE q = r
    <3>1. answer'[r].body = body /\ pc'[r] = "answered" /\ err'[r] = err[r]
      BY <1>1
    <3>2. sent[r] \in Int /\ Limit \in Int
      BY <1>1, LimitAssumption, ChunksAssumption DEF BodyTypeOK
    <3>3. QED
      BY <2>1, <2>2, <3>1, <3>2 DEF AnswerState, IsError, Rendered
  <2>3. CASE q # r
    <3>1. /\ err'[q] = err[q] /\ pc'[q] = pc[q] /\ answer'[q] = answer[q]
          /\ declared'[q] = declared[q]
      BY <1>1, <2>3
    <3>2. IsError(q) => pc'[q] = "answered"
      BY <2>1, <3>1 DEF AnswerState
    <3>3. QED
      BY <1>1, <2>1, <3>1, <3>2, AnswerKept
  <2>4. QED
    BY <2>2, <2>3
<1>3. QED
  BY <1>1, <1>2 DEF AnswerInv
\* What the handlers raise, Redis' failures included, is an exception that a
\* handler of the application is registered for.
LEMMA RaisedOK ==
    /\ \A e \in Raised : App(e) \in Errors /\ e.kind # "PayloadTooLargeError"
    /\ \A x \in RedisFailures :
          /\ App(OnRedisFailure(x)) \in Errors
          /\ OnRedisFailure(x).kind # "PayloadTooLargeError"
    /\ \A s \in HttpStatuses \cup {400} : Http(s) \in Errors
    /\ App(TooLarge) \in Errors /\ Invalid \in Errors /\ Unhandled \in Errors
<1>1. \A x \in RedisFailures : OnRedisFailure(x) \in AppErrors
                               /\ OnRedisFailure(x).kind # "PayloadTooLargeError"
  BY DEF RedisFailures, OnRedisFailure, NewError, AppErrors, Kinds, ClassOf, NoRetryAfter
<1>2. TooLarge \in AppErrors
  BY DEF TooLarge, NewError, AppErrors, Kinds, ClassOf, NoRetryAfter
<1>3. \A e \in Raised : e \in AppErrors /\ e.kind # "PayloadTooLargeError"
  BY RaisedAssumption
<1>4. QED
  BY <1>1, <1>2, <1>3 DEF Errors

LEMMA AnswerNext == AnswerInv /\ [Next]_vars => AnswerInv'
<1>1. SUFFICES ASSUME AnswerInv, [Next]_vars PROVE AnswerInv'
  OBVIOUS
<1>2. BodyInv /\ BodyInv'
  BY <1>1, BodyNext DEF AnswerInv
<1>3. \A q \in Requests : sent'[q] \in Int /\ sent'[q] >= sent[q]
  BY <1>1, <1>2, BodyGrows
<1>4. pc \in [Requests -> {"new", "size", "handler", "raising", "answered"}]
  BY <1>1 DEF AnswerInv
<1>5. ASSUME NEW r \in Requests, Arrive(r) PROVE AnswerInv'
  <2>1. declared' = declared
    BY <1>5 DEF Arrive, bodyVars
  <2>2. pc[r] = "new" /\ pc' = [pc EXCEPT ![r] = "size"] /\ UNCHANGED <<err, answer>>
    BY <1>5 DEF Arrive
  <2>3. QED
    BY <1>1, <1>2, <1>3, <1>4, <2>1, <2>2, MoveOK
<1>6. ASSUME NEW r \in Requests, CheckSize(r) PROVE AnswerInv'
  <2>1. declared' = declared /\ pc[r] = "size" /\ UNCHANGED err
    BY <1>6 DEF CheckSize, Trust, Meter, Refuse
  <2>2. CASE pc' = [pc EXCEPT ![r] = "handler"] /\ UNCHANGED answer
    BY <1>1, <1>2, <1>3, <1>4, <2>1, <2>2, MoveOK
  <2>3. CASE /\ Refuse(r)
             /\ Reply(r, ctx[r]["request_id"],
                      RenderRejected(IF declared[r] = Malformed THEN 400 ELSE 413))
             /\ pc' = [pc EXCEPT ![r] = "answered"]
    <3>1. err[r] = NoError
      BY <1>1, <2>1 DEF AnswerInv
    <3>2. declared[r] = Malformed \/ declared[r] > Limit
      BY <2>3 DEF Refuse
    <3>3. CASE declared[r] = Malformed
      BY <1>1, <1>2, <1>3, <2>1, <2>3, <3>1, <3>3, ReplyOK
    <3>4. CASE declared[r] # Malformed
      BY <1>1, <1>2, <1>3, <2>1, <2>3, <3>1, <3>2, <3>4, ReplyOK
    <3>5. QED
      BY <3>3, <3>4
  <2>4. QED
    BY <1>6, <2>2, <2>3 DEF CheckSize
<1>7. ASSUME NEW r \in Requests, Read(r) PROVE AnswerInv'
  <2>1. UNCHANGED <<pc, err, answer>>
    BY <1>7 DEF Read, workVars
  <2>2. declared' = declared
    BY <1>1, <1>2, <1>7, BodyGrows
  <2>3. QED
    BY <1>1, <1>2, <1>3, <1>4, <2>1, <2>2, MoveOK
<1>8. ASSUME NEW r \in Requests, ReadTooMuch(r) PROVE AnswerInv'
  <2>1. declared' = declared
    BY <1>1, <1>2, <1>8, BodyGrows
  <2>2. sent'[r] > Limit
    <3>1. stream' = [stream EXCEPT ![r] = "over"]
      BY <1>8 DEF ReadTooMuch, Overrun
    <3>2. stream'[r] = "over"
      BY <1>2, <3>1 DEF BodyInv, BodyTypeOK
    <3>3. QED
      BY <1>2, <3>2 DEF BodyInv, BodyState
  <2>3. pc[r] = "handler"
    BY <1>8 DEF ReadTooMuch
  <2>4. ASSUME NEW e \in Errors, Raise(r, e) PROVE AnswerInv'
    BY <1>1, <1>2, <1>3, <2>1, <2>2, <2>3, <2>4, RaiseOK
  <2>5. ASSUME UNCHANGED workVars PROVE AnswerInv'
    <3>1. UNCHANGED <<pc, err, answer>>
      BY <2>5 DEF workVars
    <3>2. QED
      BY <1>1, <1>2, <1>3, <1>4, <2>1, <3>1, MoveOK
  <2>6. QED
    BY <1>8, <2>4, <2>5, RaisedOK DEF ReadTooMuch
<1>9. ASSUME NEW r \in Requests, UseScope(r) PROVE AnswerInv'
  <2>1. declared' = declared /\ pc[r] = "handler"
    BY <1>9 DEF UseScope, bodyVars
  <2>2. CASE UNCHANGED workVars
    <3>1. UNCHANGED <<pc, err, answer>>
      BY <2>2 DEF workVars
    <3>2. QED
      BY <1>1, <1>2, <1>3, <1>4, <2>1, <3>1, MoveOK
  <2>3. CASE Raise(r, Unhandled)
    <3>1. Unhandled \in Errors /\ Unhandled.type # "app"
      BY RaisedOK DEF Unhandled
    <3>2. QED
      BY <1>1, <1>2, <1>3, <2>1, <2>3, <3>1, RaiseOK
  <2>4. QED
    BY <1>9, <2>2, <2>3 DEF UseScope
<1>10. ASSUME NEW r \in Requests, HandlerRaises(r) PROVE AnswerInv'
  <2>1. declared' = declared /\ pc[r] = "handler"
    BY <1>10 DEF HandlerRaises, bodyVars
  <2>2. ASSUME NEW e \in AppErrors, App(e) \in Errors, Raise(r, App(e)),
               e.kind # "PayloadTooLargeError"
        PROVE  AnswerInv'
    <3>1. App(e).app = e
      BY DEF App
    <3>2. QED
      BY <1>1, <1>2, <1>3, <2>1, <2>2, <3>1, RaiseOK
  <2>3. ASSUME NEW e \in Errors, Raise(r, e), e.type # "app" PROVE AnswerInv'
    BY <1>1, <1>2, <1>3, <2>1, <2>3, RaiseOK
  <2>4. ASSUME NEW e \in Raised, Raise(r, App(e)) PROVE AnswerInv'
    BY <2>2, <2>4, RaisedOK, RaisedAssumption
  <2>5. ASSUME NEW x \in RedisFailures, Raise(r, App(OnRedisFailure(x))) PROVE AnswerInv'
    <3>1. OnRedisFailure(x) \in AppErrors
      BY DEF RedisFailures, OnRedisFailure, NewError, AppErrors, Kinds, ClassOf, NoRetryAfter
    <3>2. QED
      BY <2>2, <2>5, <3>1, RaisedOK
  <2>6. ASSUME NEW s \in HttpStatuses, Raise(r, Http(s)) PROVE AnswerInv'
    <3>1. Http(s) \in Errors /\ Http(s).type # "app"
      BY RaisedOK DEF Http
    <3>2. QED
      BY <2>3, <2>6, <3>1
  <2>7. ASSUME Raise(r, Invalid) \/ Raise(r, Unhandled) PROVE AnswerInv'
    <3>1. Invalid.type # "app" /\ Unhandled.type # "app"
      BY DEF Invalid, Unhandled
    <3>2. QED
      BY <2>3, <2>7, <3>1, RaisedOK
  <2>8. QED
    BY <1>10, <2>4, <2>5, <2>6, <2>7 DEF HandlerRaises
<1>11. ASSUME NEW r \in Requests, HandlerReturns(r) PROVE AnswerInv'
  <2>1. declared' = declared
    BY <1>11 DEF HandlerReturns, bodyVars
  <2>2. pc[r] = "handler" /\ pc' = [pc EXCEPT ![r] = "answered"] /\ UNCHANGED <<err, answer>>
    BY <1>11 DEF HandlerReturns
  <2>3. QED
    BY <1>1, <1>2, <1>3, <1>4, <2>1, <2>2, MoveOK
<1>12. ASSUME (\E r \in Requests : Unwind(r)) \/ AllDone \/ UNCHANGED vars PROVE AnswerInv'
  <2>1. declared' = declared /\ UNCHANGED <<pc, err, answer>>
    BY <1>12 DEF Unwind, AllDone, vars, bodyVars, workVars
  <2>2. QED
    BY <1>1, <1>2, <1>3, <1>4, <2>1, MoveOK
<1>13. ASSUME NEW r \in Requests, Respond(r) PROVE AnswerInv'
  <2>1. declared' = declared /\ UNCHANGED err /\ pc' = [pc EXCEPT ![r] = "answered"]
    BY <1>13 DEF Respond, bodyVars
  <2>2. PICK id, body : Reply(r, id, body) /\ Rendered(err[r], body)
    BY <1>13 DEF Respond, Rendered
  <2>3. QED
    BY <1>1, <1>2, <1>3, <2>1, <2>2, ReplyOK
<1>14. QED
  BY <1>1, <1>5, <1>6, <1>7, <1>8, <1>9, <1>10, <1>11, <1>12, <1>13 DEF Next

\* AnswerInv is an invariant of the composition.
THEOREM AnswerInvariant == Spec => []AnswerInv
  BY AnswerInitOK, AnswerNext, PTL DEF Spec

\* RetryNotTooEarly: Retry-After is at least a second, and less than a
\* millisecond below what the error asked for.
THEOREM RetriesAreNotTooEarly == Spec => []RetryNotTooEarly
<1>1. ASSUME AnswerInv, NEW r \in Requests, IsError(r), err[r].type = "app",
             answer[r].body.retryAfter # NoRetryAfter
      PROVE  /\ answer[r].body.retryAfter >= 1
             /\ answer[r].body.retryAfter * 1000000 > err[r].app.retryAfter - 1000
  <2>1. AnswerState(r) /\ err[r] \in Errors
    BY <1>1 DEF AnswerInv
  <2>2. err[r].app \in AppErrors
    BY <1>1, <2>1 DEF Errors, App, Http, NoError, Invalid, Unhandled
  <2>3. answer[r].body = RenderAppError(err[r].app)
    BY <1>1, <2>1 DEF AnswerState, Rendered, NoError
  <2>4. answer[r].body.retryAfter = RetryAfterHeader(err[r].app.retryAfter)
    BY <1>1, <2>3 DEF RenderAppError, Render
  <2>5. err[r].app.retryAfter \in Int
    BY <2>2 DEF AppErrors, NoRetryAfter
  <2>6. QED
    BY <2>4, <2>5, HeaderBounds
<1>2. AnswerInv => RetryNotTooEarly
  BY <1>1 DEF RetryNotTooEarly
<1>3. QED
  BY <1>2, AnswerInvariant, PTL

\* TooLargeMeansExcess: 413 is answered only to a request whose own body was
\* declared, or found, to be larger than the limit, and never as retryable.
THEOREM TooLargeIsJustified == Spec => []TooLargeMeansExcess
<1>1. ASSUME AnswerInv, NEW r \in Requests, IsError(r), answer[r].body.status = 413
      PROVE  (declared[r] > Limit \/ sent[r] > Limit) /\ ~answer[r].body.retryable
  <2>1. AnswerState(r) /\ err[r] \in Errors
    BY <1>1 DEF AnswerInv
  <2>2. CASE Rendered(err[r], answer[r].body)
    <3>1. CASE err[r].type = "app" /\ answer[r].body = RenderAppError(err[r].app)
      <4>1. err[r].app \in AppErrors
        BY <2>1, <3>1 DEF Errors, App, Http, NoError, Invalid, Unhandled
      <4>2. HttpStatus(err[r].app.kind) = 413 /\ err[r].app.kind \in Kinds
        BY <1>1, <3>1, <4>1 DEF RenderAppError, Render, AppErrors
      <4>3. err[r].app.kind = "PayloadTooLargeError"
        BY <4>2 DEF HttpStatus, Kinds, ClassOf, StatusOverride, StatusOfClass
      <4>4. ~IsRetryable(err[r].app)
        BY <4>3 DEF IsRetryable, ClassOf, RetryableClasses
      <4>5. QED
        BY <2>1, <3>1, <4>3, <4>4 DEF AnswerState, RenderAppError, Render
    <3>2. CASE err[r].type = "http" /\ answer[r].body = RenderHttpException(err[r].status)
      <4>1. err[r].status \in HttpStatuses \cup {400}
        BY <2>1, <3>2 DEF Errors, App, Http, NoError, Invalid, Unhandled
      <4>2. err[r].status = 413
        BY <1>1, <3>2 DEF RenderHttpException, Plain, Render
      <4>3. QED
        BY <4>1, <4>2, RaisedAssumption
    <3>3. CASE answer[r].body \in {RenderInvalid, RenderUnhandled}
      BY <1>1, <3>3 DEF RenderInvalid, RenderUnhandled, Plain, Render
    <3>4. QED
      BY <2>2, <3>1, <3>2, <3>3 DEF Rendered
  <2>3. CASE answer[r].body = RenderRejected(400)
    BY <1>1, <2>3 DEF RenderRejected, Plain, Render
  <2>4. CASE answer[r].body = RenderRejected(413) /\ declared[r] > Limit
    BY <2>4 DEF RenderRejected, Plain, Render
  <2>5. QED
    BY <1>1, <2>1, <2>2, <2>3, <2>4 DEF AnswerState
<1>2. AnswerInv => TooLargeMeansExcess
  BY <1>1 DEF TooLargeMeansExcess
<1>3. QED
  BY <1>2, AnswerInvariant, PTL
-----------------------------------------------------------------------------
(* The correlation ID.                                                     *)

LEMMA RequestsAreTasks == Tasks = Requests /\ Requests \subseteq Values
                          /\ "request_id" \in Fields
  BY TasksAssumption, FieldsAssumption

\* The base scope of a request binds its own ID, nothing is bound on top of it
\* before the handler runs, and an envelope has that ID unless it was lost.
OwnId(r) ==
    /\ pc[r] = "size" => Depth(r) = 1
    /\ pc[r] # "new" => Running(r) /\ scopes[r][1].bound["request_id"] = r
    /\ answer[r].id \in Values \cup {Unset}
    /\ IsError(r) /\ "request_id" \notin scopes[r][1].lost =>
           answer[r].id = IF err[r] = Unhandled THEN Unset ELSE r

IdInv == AnswerInv /\ CtxInv /\ \A r \in Requests : OwnId(r)

LEMMA CtxInitOK == CtxInit => CtxInv
<1>1. SUFFICES ASSUME CtxInit PROVE CtxInv
  OBVIOUS
<1>2. \A t \in Tasks : scopes[t] = <<>>
  BY <1>1 DEF CtxInit
<1>3. <<>> \in Seq(Scope) /\ Len(<<>>) = 0
  BY EmptySeq
<1>4. scopes \in [Tasks -> Seq(Scope)]
  BY <1>1, <1>3 DEF CtxInit
<1>5. CtxTypeOK
  BY <1>1, <1>2, <1>3, BoundAssumption DEF CtxInit, CtxTypeOK, Depth
<1>6. ASSUME NEW t \in Tasks PROVE Lexical(scopes[t], ctx[t])
  BY <1>2, <1>3 DEF Lexical
<1>7. QED
  BY <1>4, <1>5, <1>6 DEF CtxInv

LEMMA IdInitOK == Init => IdInv
<1>1. SUFFICES ASSUME Init PROVE IdInv
  OBVIOUS
<1>2. AnswerInv /\ CtxInv
  BY <1>1, AnswerInitOK, CtxInitOK DEF Init
<1>3. ASSUME NEW r \in Requests PROVE OwnId(r)
  <2>1. pc[r] = "new" /\ answer[r].id = Unset /\ answer[r].body = NoError
    BY <1>1 DEF Init, NoAnswer
  <2>2. QED
    BY <2>1 DEF OwnId, IsError
<1>4. QED
  BY <1>2, <1>3 DEF IdInv

LEMMA CtxUnchanged == CtxInv /\ UNCHANGED ctxVars => CtxInv'
<1>1. SUFFICES ASSUME CtxInv, UNCHANGED ctxVars PROVE CtxInv'
  OBVIOUS
<1>2. ctx' = ctx /\ scopes' = scopes
  BY <1>1 DEF ctxVars
<1>3. CtxTypeOK' /\ scopes' \in [Tasks -> Seq(Scope)]
  BY <1>1, <1>2 DEF CtxInv, CtxTypeOK, Depth
<1>4. ASSUME NEW t \in Tasks PROVE Lexical(scopes'[t], ctx'[t])
  BY <1>1, <1>2 DEF CtxInv
<1>5. (\A t \in Tasks : Lexical(scopes[t], ctx[t]))'
  BY <1>4 DEF Lexical, Binds, Intact
<1>6. QED
  BY <1>3, <1>5 DEF CtxInv

\* With no scope on top of the base, the context has the ID of the request.
LEMMA IdAtBase ==
    ASSUME CtxInv, NEW r \in Requests, Depth(r) = 1,
           scopes[r][1].bound["request_id"] = r, "request_id" \notin scopes[r][1].lost
    PROVE  ctx[r]["request_id"] = r
<1>1. Lexical(scopes[r], ctx[r]) /\ Len(scopes[r]) = 1
  BY RequestsAreTasks DEF CtxInv, Depth
<1>2. PICK i \in 1 .. 1 : Binds(scopes[r], "request_id", i, 1)
  BY <1>1, RequestsAreTasks DEF Lexical
<1>3. i = 1 /\ Intact(scopes[r], "request_id", 1, 1)
  BY DEF Intact
<1>4. QED
  BY <1>1, <1>2, <1>3, RequestsAreTasks DEF Lexical

\* A request whose scopes and answer a step leaves alone, or that moves on
\* before it is answered.
LEMMA OwnIdKept ==
    ASSUME NEW r \in Requests, OwnId(r), scopes'[r] = scopes[r], answer'[r] = answer[r],
           err'[r] = err[r] \/ ~IsError(r),
           pc'[r] = pc[r] \/ (pc[r] # "new" /\ pc'[r] # "size")
    PROVE  OwnId(r)'
  BY DEF OwnId, IsError, Depth, Running

\* A handler that is not done changes its scopes: its base stays.
LEMMA OwnIdInHandler ==
    ASSUME NEW r \in Requests, OwnId(r), pc[r] \in {"handler", "raising"}, ~IsError(r),
           scopes'[r] # <<>>, scopes'[r][1].bound = scopes[r][1].bound,
           answer'[r] = answer[r], pc'[r] # "size"
    PROVE  OwnId(r)'
  BY DEF OwnId, IsError, Running

\* A reply with the ID in the context, or by the handler for Exception.
LEMMA OwnIdReplied ==
    ASSUME NEW r \in Requests, OwnId(r), CtxInv, Depth(r) = 1, pc[r] # "new",
           UNCHANGED ctxVars, err'[r] = err[r], pc'[r] = "answered",
           NEW id, NEW body, DOMAIN answer = Requests, Reply(r, id, body),
           \/ id = ctx[r]["request_id"] /\ err[r] # Unhandled
           \/ id = Unset /\ err[r] = Unhandled
    PROVE  OwnId(r)'
<1>1. answer'[r].id = id
  BY DEF Reply
<1>2. scopes'[r] = scopes[r] /\ Running(r) /\ scopes[r][1].bound["request_id"] = r
  BY DEF ctxVars, OwnId
<1>3. ctx[r]["request_id"] \in Values \cup {Unset}
  BY RequestsAreTasks DEF CtxInv, CtxTypeOK
<1>4. "request_id" \notin scopes[r][1].lost => id = IF err[r] = Unhandled THEN Unset ELSE r
  BY <1>2, IdAtBase
<1>5. QED
  BY <1>1, <1>2, <1>3, <1>4 DEF OwnId, Running

LEMMA IdNext == IdInv /\ [Next]_vars => IdInv'
<1>1. SUFFICES ASSUME IdInv, [Next]_vars PROVE IdInv'
  OBVIOUS
<1>2. /\ AnswerInv /\ AnswerInv' /\ CtxInv
      /\ pc \in [Requests -> {"new", "size", "handler", "raising", "answered"}]
      /\ \A q \in Requests : OwnId(q) /\ (IsError(q) => pc[q] = "answered")
      /\ DOMAIN answer = Requests
  BY <1>1, AnswerNext DEF IdInv, AnswerInv, AnswerState
<1>3. err \in [Requests -> Errors]
  BY <1>2 DEF AnswerInv
<1>4. ASSUME NEW r \in Requests, Arrive(r) PROVE IdInv'
  <2>1. DEFINE copy == [f \in Fields |-> IF f = "request_id" THEN r ELSE Unset]
  <2>2. copy \in [Fields -> Values \cup {Unset}] /\ copy["request_id"] = r
    BY RequestsAreTasks
  <2>3. /\ StartTask(r, copy) /\ pc' = [pc EXCEPT ![r] = "size"]
        /\ UNCHANGED <<err, answer>> /\ pc[r] = "new"
    BY <1>4 DEF Arrive
  <2>4. HIDE DEF copy
  <2>5. /\ CtxInv' /\ Len(scopes'[r]) = 1 /\ scopes'[r][1].bound = copy
        /\ \A u \in Tasks : u # r => scopes'[u] = scopes[u]
    BY <1>2, <2>2, <2>3, RequestsAreTasks, StartTaskOK
  <2>6. scopes'[r] # <<>>
    BY <2>5
  <2>7. OwnId(r)'
    BY <1>2, <2>2, <2>3, <2>5, <2>6 DEF OwnId, IsError, Depth, Running
  <2>8. ASSUME NEW q \in Requests, q # r PROVE OwnId(q)'
    BY <1>2, <2>3, <2>5, <2>8, RequestsAreTasks, OwnIdKept
  <2>9. QED
    BY <1>2, <2>5, <2>7, <2>8 DEF IdInv
<1>5. ASSUME UNCHANGED ctxVars, UNCHANGED answer, NEW r \in Requests,
             \/ UNCHANGED pc
             \/ /\ pc[r] # "new"
                /\ \E p \in {"handler", "raising", "answered"} : pc' = [pc EXCEPT ![r] = p],
             \/ UNCHANGED err
             \/ pc[r] = "handler" /\ \E e \in Errors : err' = [err EXCEPT ![r] = e]
      PROVE  IdInv'
  <2>1. CtxInv' /\ scopes' = scopes
    BY <1>2, <1>5, CtxUnchanged DEF ctxVars
  <2>2. ASSUME NEW q \in Requests PROVE OwnId(q)'
    <3>1. pc'[q] = pc[q] \/ (pc[q] # "new" /\ pc'[q] # "size")
      BY <1>2, <1>5
    <3>2. err'[q] = err[q] \/ ~IsError(q)
      BY <1>2, <1>3, <1>5
    <3>3. QED
      BY <1>2, <1>5, <2>1, <3>1, <3>2, OwnIdKept
  <2>3. QED
    BY <1>2, <2>1, <2>2 DEF IdInv
<1>6. ASSUME NEW r \in Requests, UNCHANGED ctxVars, UNCHANGED err, pc[r] # "new",
             Depth(r) = 1, pc' = [pc EXCEPT ![r] = "answered"],
             NEW id, NEW body, Reply(r, id, body),
             \/ id = ctx[r]["request_id"] /\ err[r] # Unhandled
             \/ id = Unset /\ err[r] = Unhandled
      PROVE  IdInv'
  <2>1. CtxInv' /\ scopes' = scopes
    BY <1>2, <1>6, CtxUnchanged DEF ctxVars
  <2>2. pc'[r] = "answered" /\ err'[r] = err[r]
    BY <1>2, <1>6
  <2>3. OwnId(r)'
    BY <1>2, <1>6, <2>2, OwnIdReplied
  <2>4. ASSUME NEW q \in Requests, q # r PROVE OwnId(q)'
    <3>1. pc'[q] = pc[q] /\ err'[q] = err[q] /\ answer'[q] = answer[q] /\ scopes'[q] = scopes[q]
      BY <1>2, <1>6, <2>1, <2>4 DEF Reply
    <3>2. QED
      BY <1>2, <3>1, OwnIdKept
  <2>5. QED
    BY <1>2, <2>1, <2>3, <2>4 DEF IdInv
<1>7. ASSUME NEW r \in Requests, pc[r] \in {"handler", "raising"},
             EnterScope(r) \/ ExitScope(r) \/ BindFails(r), UNCHANGED answer,
             \/ UNCHANGED <<pc, err>>
             \/ /\ pc' = [pc EXCEPT ![r] = "raising"]
                /\ \E e \in Errors : err' = [err EXCEPT ![r] = e]
      PROVE  IdInv'
  <2>1. /\ CtxInv'
        /\ scopes'[r] # <<>> /\ scopes'[r][1].bound = scopes[r][1].bound
        /\ \A u \in Tasks : u # r => scopes'[u] = scopes[u]
    BY <1>2, <1>7, RequestsAreTasks, EnterScopeOK, ExitScopeOK, BindFailsOK
  <2>2. ~IsError(r) /\ pc'[r] # "size"
    BY <1>2, <1>7
  <2>3. OwnId(r)'
    BY <1>2, <1>7, <2>1, <2>2, OwnIdInHandler
  <2>4. ASSUME NEW q \in Requests, q # r PROVE OwnId(q)'
    <3>1. pc'[q] = pc[q] /\ err'[q] = err[q] /\ scopes'[q] = scopes[q]
      BY <1>2, <1>3, <1>7, <2>1, <2>4, RequestsAreTasks
    <3>2. QED
      BY <1>2, <1>7, <3>1, OwnIdKept
  <2>5. QED
    BY <1>2, <2>1, <2>3, <2>4 DEF IdInv
<1>8. ASSUME NEW r \in Requests, CheckSize(r) PROVE IdInv'
  <2>1. UNCHANGED ctxVars /\ UNCHANGED err /\ pc[r] = "size" /\ Depth(r) = 1
    BY <1>2, <1>8 DEF CheckSize, OwnId
  <2>2. CASE pc' = [pc EXCEPT ![r] = "handler"] /\ UNCHANGED answer
    BY <1>5, <2>1, <2>2
  <2>3. CASE /\ Reply(r, ctx[r]["request_id"],
                      RenderRejected(IF declared[r] = Malformed THEN 400 ELSE 413))
             /\ pc' = [pc EXCEPT ![r] = "answered"]
    <3>1. err[r] # Unhandled
      BY <1>2, <2>1 DEF AnswerInv, NoError, Unhandled
    <3>2. QED
      BY <1>6, <2>1, <2>3, <3>1
  <2>4. QED
    BY <1>8, <2>2, <2>3 DEF CheckSize
<1>9. ASSUME NEW r \in Requests, Read(r) PROVE IdInv'
  <2>1. UNCHANGED ctxVars /\ UNCHANGED <<pc, err, answer>>
    BY <1>9 DEF Read, workVars
  <2>2. QED
    BY <1>5, <2>1
<1>10. ASSUME NEW r \in Requests, UNCHANGED ctxVars, pc[r] = "handler",
              NEW e \in Errors, Raise(r, e)
       PROVE  IdInv'
  BY <1>5, <1>10 DEF Raise
<1>11. ASSUME NEW r \in Requests, ReadTooMuch(r) PROVE IdInv'
  <2>1. UNCHANGED ctxVars /\ pc[r] = "handler"
    BY <1>11 DEF ReadTooMuch
  <2>2. CASE UNCHANGED workVars
    BY <1>5, <2>1, <2>2 DEF workVars
  <2>3. App(TooLarge) \in Errors /\ Http(400) \in Errors
    BY RaisedOK
  <2>4. CASE Raise(r, App(TooLarge)) \/ Raise(r, Http(400))
    BY <1>10, <2>1, <2>3, <2>4
  <2>5. QED
    BY <1>11, <2>2, <2>4 DEF ReadTooMuch
<1>12. ASSUME NEW r \in Requests, UseScope(r) PROVE IdInv'
  <2>1. pc[r] = "handler" /\ Unhandled \in Errors
    BY <1>12, RaisedOK DEF UseScope
  <2>2. EnterScope(r) \/ ExitScope(r) \/ BindFails(r)
    BY <1>12 DEF UseScope
  <2>3. CASE UNCHANGED workVars
    BY <1>7, <2>1, <2>2, <2>3 DEF workVars
  <2>4. CASE Raise(r, Unhandled)
    BY <1>7, <2>1, <2>2, <2>4 DEF Raise
  <2>5. QED
    BY <1>12, <2>3, <2>4 DEF UseScope
<1>13. ASSUME NEW r \in Requests, HandlerRaises(r) PROVE IdInv'
  <2>1. UNCHANGED ctxVars /\ pc[r] = "handler"
    BY <1>13 DEF HandlerRaises
  <2>2. PICK e \in Errors : Raise(r, e)
    BY <1>13, RaisedOK DEF HandlerRaises
  <2>3. QED
    BY <1>10, <2>1, <2>2
<1>14. ASSUME NEW r \in Requests, HandlerReturns(r) PROVE IdInv'
  <2>1. /\ UNCHANGED ctxVars /\ UNCHANGED answer /\ UNCHANGED err
        /\ pc[r] = "handler" /\ pc' = [pc EXCEPT ![r] = "answered"]
    BY <1>14 DEF HandlerReturns
  <2>2. QED
    BY <1>5, <2>1
<1>15. ASSUME NEW r \in Requests, Unwind(r) PROVE IdInv'
  <2>1. pc[r] = "raising" /\ ExitScope(r) /\ UNCHANGED <<pc, err, answer>>
    BY <1>15 DEF Unwind, workVars
  <2>2. QED
    BY <1>7, <2>1
<1>16. ASSUME NEW r \in Requests, Respond(r) PROVE IdInv'
  <2>1. /\ UNCHANGED ctxVars /\ UNCHANGED err /\ pc[r] = "raising" /\ Depth(r) = 1
        /\ pc' = [pc EXCEPT ![r] = "answered"] /\ err[r] \in Errors
    BY <1>3, <1>16 DEF Respond
  <2>2. err[r] = Unhandled <=> err[r].type = "unhandled"
    BY <2>1 DEF Errors, App, Http, NoError, Invalid, Unhandled
  <2>3. PICK id, body :
            /\ Reply(r, id, body)
            /\ \/ id = ctx[r]["request_id"] /\ err[r].type \in {"app", "http", "invalid"}
               \/ id = Unset /\ err[r].type = "unhandled"
    BY <1>16 DEF Respond
  <2>4. QED
    BY <1>6, <2>1, <2>2, <2>3
<1>17. CASE UNCHANGED vars
  <2>1. CtxInv' /\ UNCHANGED <<pc, err, answer, scopes>>
    BY <1>2, <1>17, CtxUnchanged DEF vars, ctxVars, workVars
  <2>2. QED
    BY <1>2, <2>1, OwnIdKept DEF IdInv
<1>18. CASE AllDone
  BY <1>17, <1>18 DEF AllDone
<1>19. QED
  BY <1>1, <1>4, <1>8, <1>9, <1>11, <1>12, <1>13, <1>14, <1>15, <1>16, <1>17, <1>18 DEF Next

\* IdInv is an invariant of the composition.
THEOREM IdInvariant == Spec => []IdInv
  BY IdInitOK, IdNext, PTL DEF Spec

\* InnermostWins: binding is lexical, however many scopes are opened and left
\* in whatever order, by return or by exception, in whatever tasks.
THEOREM BindingIsLexical == Spec => []InnermostWins
<1>1. IdInv => InnermostWins
  BY LexicalBinding DEF IdInv
<1>2. QED
  BY <1>1, IdInvariant, PTL

\* EnvelopeKeepsId: an envelope carries the ID of its own request, whatever
\* scopes the exception came out of and whatever they had bound.
THEOREM EnvelopesKeepTheId == Spec => []EnvelopeKeepsId
<1>1. IdInv => EnvelopeKeepsId
  BY DEF IdInv, OwnId, EnvelopeKeepsId
<1>2. QED
  BY <1>1, IdInvariant, PTL

\* An answer is nothing yet or an envelope.
LEMMA HttpEnvelope ==
    ASSUME NEW status \in Int
    PROVE  RenderHttpException(status) \in Envelopes
  BY DEF RenderHttpException, Plain, Render, Envelopes, Classes, NoRetryAfter

LEMMA FixedEnvelopes ==
    /\ RenderInvalid \in Envelopes
    /\ RenderUnhandled \in Envelopes
    /\ RenderRejected(400) \in Envelopes
    /\ RenderRejected(413) \in Envelopes
  BY DEF RenderInvalid, RenderUnhandled, RenderRejected, Plain, Render, Envelopes,
         Classes, ClassOf, NoRetryAfter

LEMMA AppErrorEnvelope ==
    ASSUME NEW e \in AppErrors
    PROVE  RenderAppError(e) \in Envelopes
<1>1. e.kind \in Kinds /\ e.retryAfter \in Int
  BY DEF AppErrors, NoRetryAfter
<1>2. HttpStatus(e.kind) \in Int
  BY <1>1 DEF HttpStatus, Kinds, ClassOf, StatusOverride, StatusOfClass
<1>3. ClassOf[e.kind] \in Classes
  BY <1>1 DEF Kinds, ClassOf, Classes
<1>4. IsRetryable(e) \in BOOLEAN
  BY Zenon DEF IsRetryable
<1>5. RetryAfterHeader(e.retryAfter) \in Int
  BY <1>1, HeaderBounds
<1>6. DEFINE status == HttpStatus(e.kind)
             class == ClassOf[e.kind]
             retryable == IsRetryable(e)
             header == RetryAfterHeader(e.retryAfter)
<1>7. HIDE DEF status, class, retryable, header
<1>8. RenderAppError(e) =
          [status |-> status, class |-> class, retryable |-> retryable,
           retryAfter |-> IF e.retryAfter = NoRetryAfter THEN NoRetryAfter ELSE header]
  BY DEF RenderAppError, Render, status, class, retryable, header
<1>9. status \in Int /\ class \in Classes /\ retryable \in BOOLEAN /\ header \in Int
  BY <1>2, <1>3, <1>4, <1>5 DEF status, class, retryable, header
<1>10. QED
  BY <1>8, <1>9 DEF Envelopes, NoRetryAfter

LEMMA AnswersAreEnvelopes ==
    ASSUME NEW e \in Errors, NEW body, Rendered(e, body)
    PROVE  body \in Envelopes
<1>1. CASE e.type = "app" /\ body = RenderAppError(e.app)
  <2>1. e.app \in AppErrors
    BY <1>1 DEF Errors, App, Http, NoError, Invalid, Unhandled
  <2>2. QED
    BY <1>1, <2>1, AppErrorEnvelope
<1>2. CASE e.type = "http" /\ body = RenderHttpException(e.status)
  <2>1. e.status \in HttpStatuses \cup {400}
    BY <1>2 DEF Errors, App, Http, NoError, Invalid, Unhandled
  <2>2. e.status \in Int
    <3>1. \A n \in HttpStatuses \cup {400} : n \in Int
      BY RaisedAssumption
    <3>2. QED
      BY Zenon, <2>1, <3>1
  <2>3. QED
    BY <1>2, <2>2, HttpEnvelope
<1>3. CASE body \in {RenderInvalid, RenderUnhandled}
  BY <1>3, FixedEnvelopes
<1>4. QED
  BY <1>1, <1>2, <1>3 DEF Rendered

\* TypeOK: the type invariant of the composition.
THEOREM TypeInvariant == Spec => []TypeOK
<1>1. ASSUME IdInv, NEW r \in Requests
      PROVE  /\ answer[r].id \in Values \cup {Unset}
             /\ answer[r].body \in Envelopes \cup {NoError}
  <2>1. AnswerState(r) /\ OwnId(r)
    BY <1>1 DEF IdInv, AnswerInv
  <2>2. QED
    BY <2>1, FixedEnvelopes, AnswersAreEnvelopes DEF AnswerState, OwnId, IsError
<1>2. IdInv => TypeOK
  BY <1>1 DEF IdInv, AnswerInv, BodyInv, CtxInv, TypeOK
<1>3. QED
  BY <1>2, IdInvariant, PTL
=============================================================================
