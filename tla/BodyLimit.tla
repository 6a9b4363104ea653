----------------------------- MODULE BodyLimit -----------------------------
(***************************************************************************)
(* RequestSizeLimitMiddleware (app/api/middleware.py): the bodies of       *)
(* concurrent requests on their way from the server to the application,    *)
(* message by message.                                                     *)
(*                                                                         *)
(* A declared Content-Length is checked once and trusted from then on; a   *)
(* body without one is metered as it is received.  That a body is as long  *)
(* as its Content-Length says is enforced by the server (uvicorn), which   *)
(* is not part of the repository.  Whether and how far a body is read is   *)
(* up to the application, which may even go on after the limit was hit.    *)
(***************************************************************************)
EXTENDS Integers, Sequences

CONSTANTS
    Requests,   \* the requests
    Limit,      \* APISettings.max_request_bytes
    Chunks,     \* the sizes of the messages a body comes in
    MaxSent     \* bound: a client gives up before it has sent more than this

ASSUME LimitAssumption == Limit \in Nat \ {0}
ASSUME ChunksAssumption == Chunks \subseteq Nat /\ MaxSent \in Nat

\* A Content-Length that is missing, or no integer.  A negative one, which
\* int() accepts, never gets here: the server's HTTP parser refuses it.
Absent == -1
Malformed == -2
Lengths == {Absent, Malformed} \cup 0 .. MaxSent

VARIABLES
    declared,   \* the Content-Length header of each request
    stream,     \* what became of each body
    sent,       \* the bytes the server has received of it
    total,      \* the counter in the closure of _metered_receive
    handed,     \* the bytes handed on to the application
    sizes       \* what the request added to http_request_size_bytes

bodyVars == <<declared, stream, sent, total, handed, sizes>>

\* trusted and metered bodies are being read; a breach was raised at least
\* once for an over one.
Streams == {"new", "trusted", "metered", "over", "complete", "refused", "gone"}
Reading == {"trusted", "metered", "over"}

BodyInit ==
    /\ declared \in [Requests -> Lengths]
    /\ stream = [r \in Requests |-> "new"]
    /\ sent = [r \in Requests |-> 0]
    /\ total = [r \in Requests |-> 0]
    /\ handed = [r \in Requests |-> 0]
    /\ sizes = [r \in Requests |-> <<>>]

Observe(r, size) == sizes' = [sizes EXCEPT ![r] = Append(@, size)]

\* The middleware is entered and accepts the declared length ...
Trust(r) ==
    /\ stream[r] = "new"
    /\ declared[r] \in 0 .. Limit
    /\ stream' = [stream EXCEPT ![r] = "trusted"]
    /\ Observe(r, declared[r])
    /\ UNCHANGED <<declared, sent, total, handed>>

\* A variant: the size is recorded before it is compared.
Refuse_Observed(r) ==
    /\ stream[r] = "new"
    /\ declared[r] = Malformed \/ declared[r] > Limit
    /\ stream' = [stream EXCEPT ![r] = "refused"]
    /\ Observe(r, declared[r])
    /\ UNCHANGED <<declared, sent, total, handed>>

\* ... or refuses it, with 400 or 413, before a byte of the body is read ...
Refuse(r) ==
    /\ stream[r] = "new"
    /\ declared[r] = Malformed \/ declared[r] > Limit
    /\ stream' = [stream EXCEPT ![r] = "refused"]
    /\ UNCHANGED <<declared, sent, total, handed, sizes>>

\* ... or, without one, puts a meter around receive.
Meter(r) ==
    /\ stream[r] = "new"
    /\ declared[r] = Absent
    /\ stream' = [stream EXCEPT ![r] = "metered"]
    /\ UNCHANGED <<declared, sent, total, handed, sizes>>

\* The server has a message for the application: c bytes, and whether more
\* will come.  A declared length is kept to.
Message(r, c, more) ==
    /\ stream[r] \in Reading
    /\ sent[r] + c <= MaxSent
    /\ stream[r] = "trusted" =>
           /\ sent[r] + c <= declared[r]
           /\ more <=> sent[r] + c < declared[r]
    /\ sent' = [sent EXCEPT ![r] = @ + c]
    /\ UNCHANGED declared

HandOn(r, c, more) ==
    /\ handed' = [handed EXCEPT ![r] = @ + c]
    /\ stream' = [stream EXCEPT ![r] = IF more THEN @ ELSE "complete"]

\* receive of a trusted body is the server's own.
ReceiveTrusted(r) ==
    /\ stream[r] = "trusted"
    /\ \E c \in Chunks, more \in BOOLEAN :
        Message(r, c, more) /\ HandOn(r, c, more)
    /\ UNCHANGED <<total, sizes>>

\* A variant: one counter for all requests.
Count_Shared(r, c) == total' = [q \in Requests |-> total[q] + c]

Count(r, c) == total' = [total EXCEPT ![r] = @ + c]

\* A variant: every message is compared with the limit for itself.
ReceiveMetered_PerMessage(r) ==
    /\ stream[r] \in {"metered", "over"}
    /\ \E c \in Chunks, more \in BOOLEAN :
        /\ Message(r, c, more)
        /\ Count(r, c)
        /\ c <= Limit
        /\ HandOn(r, c, more)
        /\ IF more THEN UNCHANGED sizes ELSE Observe(r, total[r] + c)

\* wrapped() lets a message through, and records the size with the last one.
ReceiveMetered(r) ==
    /\ stream[r] \in {"metered", "over"}
    /\ \E c \in Chunks, more \in BOOLEAN :
        /\ Message(r, c, more)
        /\ Count(r, c)
        /\ total[r] + c <= Limit
        /\ HandOn(r, c, more)
        /\ IF more THEN UNCHANGED sizes ELSE Observe(r, total[r] + c)

\* A variant: a body that just fits is too large.
Overrun_AtLimit(r) ==
    /\ stream[r] \in {"metered", "over"}
    /\ \E c \in Chunks, more \in BOOLEAN :
        /\ Message(r, c, more)
        /\ Count(r, c)
        /\ total[r] + c >= Limit
    /\ stream' = [stream EXCEPT ![r] = "over"]
    /\ UNCHANGED <<handed, sizes>>

\* wrapped() counts a message past the limit and raises PayloadTooLargeError
\* into whoever reads: the message itself is not handed on.
Overrun(r) ==
    /\ stream[r] \in {"metered", "over"}
    /\ \E c \in Chunks, more \in BOOLEAN :
        /\ Message(r, c, more)
        /\ Count(r, c)
        /\ total[r] + c > Limit
    /\ stream' = [stream EXCEPT ![r] = "over"]
    /\ UNCHANGED <<handed, sizes>>

\* The client goes away: http.disconnect is passed on uncounted.
Disconnect(r) ==
    /\ stream[r] \in Reading
    /\ stream' = [stream EXCEPT ![r] = "gone"]
    /\ UNCHANGED <<declared, sent, total, handed, sizes>>

Receive(r) == ReceiveTrusted(r) \/ ReceiveMetered(r)

-----------------------------------------------------------------------------
(* Properties.                                                             *)

BodyTypeOK ==
    /\ declared \in [Requests -> Lengths]
    /\ stream \in [Requests -> Streams]
    /\ sent \in [Requests -> 0 .. MaxSent]
    /\ total \in [Requests -> Nat]
    /\ handed \in [Requests -> 0 .. MaxSent]
    /\ sizes \in [Requests -> Seq(Nat)]

\* The application never gets more than the limit of any body: declared or
\* chunked, in whatever messages it comes, and even if the application reads
\* on after the error was raised.
NeverMoreThanLimit == \A r \in Requests : handed[r] <= Limit

\* No body within the limit is refused or cut off, whatever the bodies of
\* other requests add up to: a breach is a declared or counted excess.
OnlyExcessIsRefused ==
    \A r \in Requests :
        /\ stream[r] = "over" => sent[r] > Limit
        /\ stream[r] = "refused" => declared[r] \notin 0 .. Limit \cup {Absent}

\* http_request_size_bytes holds every body the application got completely,
\* once and with its true size, and no refused or oversized one.  Of a body
\* that broke off it holds what was declared, if anything was: never the part
\* that came.
SizesAreTrue ==
    \A r \in Requests :
        /\ stream[r] = "complete" => sizes[r] = <<sent[r]>>
        /\ stream[r] \in {"refused", "over"} => sizes[r] = <<>>
        /\ stream[r] = "gone" =>
               sizes[r] = IF declared[r] = Absent THEN <<>> ELSE <<declared[r]>>
=============================================================================
