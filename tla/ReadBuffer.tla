----------------------------- MODULE ReadBuffer -----------------------------
(***************************************************************************)
(* The read helpers of src/src/vrpn_async_std/mod.rs over a BytesMut and  *)
(* a byte stream.  A BytesMut is a record: data (its len bytes) and cap   *)
(* (its capacity).  The stream holds the bytes the peer has sent that no  *)
(* read has taken yet; a read into a slice of length L takes 1..L of them *)
(* (it awaits while none is there) or 0 when L = 0.                       *)
(*                                                                         *)
(* Two clients of the helpers: "fn" owns a BytesMut and calls read_cookie *)
(* (read_n_into_bytes_mut) and read_into_bytes_mut; "reader" owns a       *)
(* BytesMutReader and calls read_from, take_contents and                  *)
(* give_back_contents.  Both hand bytes on to a consumer (the frame       *)
(* decoder) that split_to's a prefix off the front.                      *)
(***************************************************************************)
EXTENDS Integers, Sequences

CONSTANTS
    Inputs,       \* what the peer may send: sequences of distinct bytes
    Api,          \* the clients present: a subset of {"fn", "reader"}
    InitCaps,     \* capacities the client's BytesMut may be created with
    CookieSize,   \* CookieData::constant_buffer_size()
    ReserveSlack  \* extra capacity reserve() may allocate beyond the request

ASSUME Api \subseteq {"fn", "reader"} /\ InitCaps \subseteq Nat /\ ReserveSlack \in Nat

NoContents == [data |-> <<>>, cap |-> -1]

VARIABLES
    api,        \* which client this behaviour runs
    input,      \* the bytes the peer sends in this behaviour
    stream,     \* bytes sent and not yet read
    buf,        \* the client's BytesMut (for "reader", BytesMutReader.0)
    taken,      \* the BytesMut take_contents handed out, or NoContents
    delivered,  \* bytes the consumer has split off and processed
    panicked    \* "none", or the helper whose assert_eq! failed

vars == <<api, input, stream, buf, taken, delivered, panicked>>

-----------------------------------------------------------------------------
(* BytesMut operations, as the bytes crate defines them.                   *)

\* split(): the bytes move out with capacity len; self keeps the rest of
\* the capacity and is empty.
SplitHead(b) == [data |-> b.data, cap |-> Len(b.data)]
SplitTail(b) == [data |-> <<>>, cap |-> b.cap - Len(b.data)]

\* split_to(k): the first k bytes move out; self keeps the rest.
SplitToTail(b, k) == [data |-> SubSeq(b.data, k + 1, Len(b.data)), cap |-> b.cap - k]

\* clone(): a fresh allocation exactly as long as the contents.
Clone(b) == [data |-> b.data, cap |-> Len(b.data)]

\* Mutant: off by one, the new allocation is one byte short.
Reserve_short(b, add) ==
    IF b.cap - Len(b.data) >= add THEN {b}
    ELSE {[b EXCEPT !.cap = c] : c \in (Len(b.data) + add - 1)..(Len(b.data) + add - 1 + ReserveSlack)}

\* reserve(add): unchanged when add bytes are free, else a new allocation
\* of at least len + add (how much more is the allocator's choice).
Reserve(b, add) ==
    IF b.cap - Len(b.data) >= add THEN {b}
    ELSE {[b EXCEPT !.cap = c] : c \in (Len(b.data) + add)..(Len(b.data) + add + ReserveSlack)}

\* extend_from_slice(s): reserve, then copy s to the end.
Extend(b, s) == {[r EXCEPT !.data = @ \o s] : r \in Reserve(b, Len(s))}

\* a.unsplit(b): b if a is empty; a if b has no capacity; the two views
\* joined when b is the allocation right after a; otherwise a copy of b's
\* bytes onto a (extend_from_slice).
Unsplit(a, b, adjacent) ==
    IF a.data = <<>> THEN {b}
    ELSE IF b.cap = 0 THEN {a}
    ELSE IF adjacent THEN {[data |-> a.data \o b.data, cap |-> a.cap + b.cap]}
    ELSE Extend(a, b.data)

\* Counts a read into a slice of length len may return.
ReadCounts(len) == IF len = 0 THEN {0} ELSE 1..IF len < Len(stream) THEN len ELSE Len(stream)

\* The client may await a read: the slice is empty or bytes are there.
CanRead(len) == len = 0 \/ stream # <<>>

-----------------------------------------------------------------------------
Init ==
    /\ api \in Api /\ input \in Inputs
    /\ input \in Inputs
    /\ stream = input
    /\ buf \in {[data |-> <<>>, cap |-> c] : c \in InitCaps}
    /\ taken = NoContents
    /\ delivered = <<>>
    /\ panicked = "none"

\* The two assert_eq!s the helpers end with.
Asserts(orig, new, n) == new.cap = orig.cap /\ Len(new.data) = Len(orig.data) + n

\* Set the buffer, or panic when the asserts fail.
Finish(orig, new, n, helper) ==
    /\ buf' = new
    /\ panicked' = IF Asserts(orig, new, n) THEN "none" ELSE helper

\* Mutant: the final *buf = before is missing, so the caller keeps the
\* split-off tail.
read_into_bytes_mut_noassign ==
    /\ api = "fn" /\ panicked = "none"
    /\ LET rest == SplitTail(buf)
       IN  /\ CanRead(Len(rest.data))
           /\ \E n \in ReadCounts(Len(rest.data)) :
                LET read == [rest EXCEPT !.data = SubSeq(stream, 1, n)]
                IN  /\ stream' = SubSeq(stream, n + 1, Len(stream))
                    /\ Finish(buf, read, n, "read_into_bytes_mut")
    /\ UNCHANGED <<api, input, taken, delivered>>

(***************************************************************************)
(* read_into_bytes_mut: split off the contents, read into what is left   *)
(* (an empty slice), set_len(n), unsplit a clone of it back, assert.      *)
(***************************************************************************)
read_into_bytes_mut ==
    /\ api = "fn" /\ panicked = "none"
    /\ LET before == SplitHead(buf)
           rest == SplitTail(buf)
       IN  /\ CanRead(Len(rest.data))
           /\ \E n \in ReadCounts(Len(rest.data)) :
                \E new \in Unsplit(before, Clone([rest EXCEPT !.data = SubSeq(stream, 1, n)]), FALSE) :
                   /\ stream' = SubSeq(stream, n + 1, Len(stream))
                   /\ Finish(buf, new, n, "read_into_bytes_mut")
    /\ UNCHANGED <<api, input, taken, delivered>>

\* Mutant: no reserve before the read, so extend_from_slice may grow the
\* buffer.
read_n_into_bytes_mut_noreserve(max_len) ==
    /\ api = "fn" /\ panicked = "none"
    /\ Len(stream) >= max_len
    /\ \E new \in Extend(buf, SubSeq(stream, 1, max_len)) :
         /\ stream' = SubSeq(stream, max_len + 1, Len(stream))
         /\ Finish(buf, new, max_len, "read_n_into_bytes_mut")
    /\ UNCHANGED <<api, input, taken, delivered>>

(***************************************************************************)
(* read_n_into_bytes_mut(max_len), as read_cookie calls it: reserve,     *)
(* read_exact max_len bytes into a local vector, extend_from_slice, assert.*)
(***************************************************************************)
read_n_into_bytes_mut(max_len) ==
    /\ api = "fn" /\ panicked = "none"
    /\ Len(stream) >= max_len
    /\ \E reserved \in Reserve(buf, max_len) :
         \E new \in Extend(reserved, SubSeq(stream, 1, max_len)) :
            /\ stream' = SubSeq(stream, max_len + 1, Len(stream))
            /\ Finish(reserved, new, max_len, "read_n_into_bytes_mut")
    /\ UNCHANGED <<api, input, taken, delivered>>

\* read_cookie, which the client calls once, before anything else is read.
read_cookie == stream = input /\ read_n_into_bytes_mut(CookieSize)

(***************************************************************************)
(* BytesMutReader::read_from: split off the contents, read into the rest  *)
(* (an empty slice), set_len(n), unsplit the rest back, assert.           *)
(***************************************************************************)
read_from ==
    /\ api = "reader" /\ panicked = "none"
    /\ LET existing == SplitHead(buf)
           rest == SplitTail(buf)
       IN  /\ CanRead(Len(rest.data))
           /\ \E n \in ReadCounts(Len(rest.data)) :
                \E new \in Unsplit(existing, [rest EXCEPT !.data = SubSeq(stream, 1, n)], TRUE) :
                   /\ stream' = SubSeq(stream, n + 1, Len(stream))
                   /\ Finish(buf, new, n, "read_from")
    /\ UNCHANGED <<api, input, taken, delivered>>

\* BytesMutReader::take_contents: split() the contents out.
take_contents ==
    /\ api = "reader" /\ panicked = "none" /\ taken = NoContents
    /\ taken' = SplitHead(buf)
    /\ buf' = SplitTail(buf)
    /\ UNCHANGED <<api, input, stream, delivered, panicked>>

\* BytesMutReader::give_back_contents: contents.unsplit(self.0).  The
\* reader's view is still the allocation right after the contents: no
\* step in between reallocates it.
give_back_contents ==
    /\ api = "reader" /\ panicked = "none" /\ taken # NoContents
    /\ \E new \in Unsplit(taken, buf, TRUE) : buf' = new
    /\ taken' = NoContents
    /\ UNCHANGED <<api, input, stream, delivered, panicked>>

\* The consumer split_to's a prefix off the bytes it holds: the client's
\* buffer, or for "reader" the contents it took.
Consume ==
    /\ panicked = "none"
    /\ \/ /\ api = "fn"
          /\ \E k \in 1..Len(buf.data) :
                /\ delivered' = delivered \o SubSeq(buf.data, 1, k)
                /\ buf' = SplitToTail(buf, k)
          /\ UNCHANGED taken
       \/ /\ api = "reader" /\ taken # NoContents
          /\ \E k \in 1..Len(taken.data) :
                /\ delivered' = delivered \o SubSeq(taken.data, 1, k)
                /\ taken' = SplitToTail(taken, k)
          /\ UNCHANGED buf
    /\ UNCHANGED <<api, input, stream, panicked>>

Next ==
    \/ read_into_bytes_mut
    \/ read_cookie
    \/ read_from
    \/ take_contents
    \/ give_back_contents
    \/ Consume

-----------------------------------------------------------------------------
TypeOK ==
    /\ api \in Api /\ input \in Inputs
    /\ buf.cap >= Len(buf.data)
    /\ taken = NoContents \/ taken.cap >= Len(taken.data)
    /\ panicked \in {"none", "read_into_bytes_mut", "read_n_into_bytes_mut", "read_from"}

\* The bytes the client holds: the taken contents, then its buffer.
Held == (IF taken = NoContents THEN <<>> ELSE taken.data) \o buf.data

(***************************************************************************)
(* No byte is lost, duplicated or reordered by the split / read / set_len *)
(* / unsplit sequence of the helpers or by take_contents and              *)
(* give_back_contents: what the consumer processed, followed by what the  *)
(* client holds, is exactly the prefix of the input read off the stream.  *)
(***************************************************************************)
NoBytesLostOrReordered ==
    delivered \o Held = SubSeq(input, 1, Len(input) - Len(stream))

(***************************************************************************)
(* read_cookie's assert_eq!s hold: the reserve before read_exact leaves  *)
(* room, so extend_from_slice keeps the capacity and appends max_len.     *)
(***************************************************************************)
ReadNAssertionsHold == panicked # "read_n_into_bytes_mut"

(***************************************************************************)
(* read_into_bytes_mut's assert_eq!s hold: the capacity after the unsplit *)
(* is the capacity before the call.                                        *)
(***************************************************************************)
ReadIntoAssertionsHold == panicked # "read_into_bytes_mut"

(***************************************************************************)
(* A client that keeps calling its read helper eventually reads every    *)
(* byte the peer sent.                                                     *)
(***************************************************************************)
EventuallyAllRead == <>(stream = <<>>)

\* The clients loop on their read helper while they run.
Spec == Init /\ [][Next]_vars /\ WF_vars(read_into_bytes_mut) /\ WF_vars(read_from)
=============================================================================
