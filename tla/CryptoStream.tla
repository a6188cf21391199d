---------------------------- MODULE CryptoStream ----------------------------
(***************************************************************************)
(* CryptoResponse.read, of both clients: reads of any size from a stream   *)
(* of chunks.  A reader has the chunks that have not been taken yet, the   *)
(* bytes that a read left over, and the number that the next chunk must    *)
(* have.                                                                   *)
(***************************************************************************)
EXTENDS Integers, Sequences, FiniteSetsExt, SequencesExt

Everything == -1

Lesser(a, b) == Min({a, b})
\* data[:size]
Cut(data, size) == SubSeq(data, 1, Lesser(size, Len(data)))

Reader(stream) == [stream |-> stream, buffer |-> <<>>, expected_seq |-> 0]

Data(chunks) == FlattenSeq([i \in DOMAIN chunks |-> chunks[i].data])

\* __iter__ raises at the first chunk out of order.
InOrder(r, k) == \A i \in 1 .. k : r.stream[i].seq = r.expected_seq + i - 1

\* How many chunks a read takes: one more until there is enough.
Taken(r, size) ==
  LET enough == {k \in DOMAIN r.stream :
                   Len(r.buffer) + Len(Data(SubSeq(r.stream, 1, k))) >= size}
  IN IF size = Everything \/ enough = {} THEN Len(r.stream) ELSE Min(enough)

Advanced(r, k, buffer) ==
  [stream |-> SubSeq(r.stream, k + 1, Len(r.stream)), buffer |-> buffer,
   expected_seq |-> r.expected_seq + k]

\* What is returned, or that it raised, and the reader afterwards.  A read to
\* the end neither returns nor drops what an earlier one left over, and a
\* read that raises has dropped it.
read(r, size) ==
  LET k == Taken(r, size)
      data == r.buffer \o Data(SubSeq(r.stream, 1, k))
      good == Max({j \in 0 .. k : InOrder(r, j)})
  IN IF good < k
     THEN [raised |-> TRUE, data |-> <<>>,
           reader |-> [Advanced(r, good + 1, IF size = Everything THEN r.buffer ELSE <<>>)
                         EXCEPT !.expected_seq = r.expected_seq + good]]
     ELSE IF size = Everything
     THEN [raised |-> FALSE, data |-> Data(SubSeq(r.stream, 1, k)), reader |-> Advanced(r, k, r.buffer)]
     ELSE [raised |-> FALSE, data |-> Cut(data, size),
           reader |-> Advanced(r, k, SubSeq(data, size + 1, Len(data)))]

\* The asynchronous client awaits each chunk and does the same.
aread(r, size) == read(r, size)

----------------------------------------------------------------------------
(* Against a reference: a file with the same bytes.                        *)

\* Two reads in a row give the bytes of the stream from the front, as many as
\* were asked for or are left; and a stream out of order gives no byte that
\* comes after the gap (_response.py, CryptoResponse.read).
ReadsLikeAFile(Read(_, _), stream, a, b) ==
  LET whole == Data(stream)
      one == Read(Reader(stream), a)
      two == Read(one.reader, b)
      n == Lesser(a, Len(whole))
      m == Lesser(a + b, Len(whole))
  IN IF InOrder(Reader(stream), Len(stream))
     THEN /\ ~one.raised /\ one.data = SubSeq(whole, 1, n)
          /\ ~two.raised /\ two.data = SubSeq(whole, n + 1, m)
          /\ Read(Reader(stream), Everything).data = whole
     ELSE LET gap == Max({j \in 0 .. Len(stream) : InOrder(Reader(stream), j)})
          IN one.raised \/ IsPrefix(one.data, Data(SubSeq(stream, 1, gap)))
=============================================================================
