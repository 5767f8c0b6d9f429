------------------------- MODULE SegmentArithmetic -------------------------
(***************************************************************************)
(* From bytes to segments: parseSize in demo5/src/client.cpp, and          *)
(* AllocateMemory and the first lines of Allocate in                       *)
(* demo5/src/server.cpp, which each round a size_t up to an int number of  *)
(* segments.  Widths are constants: the source has SizeValues = 2^64,      *)
(* IntValues = 2^32, MB = 2^20, SegmentSize = 2^22, NumSegments = 2560.    *)
(***************************************************************************)
EXTENDS Integers

CONSTANTS
  SizeValues,   \* how many values a size_t, or MemoryRequest.size, can have
  IntValues,    \* how many values an int can have
  MB,           \* bytes of what the client's user counts in
  SegmentSize,  \* SEGMENT_SIZE
  NumSegments   \* NUM_SEGMENTS

\* The widths and SEGMENT_SIZE are powers of two, and far enough apart.
ASSUME ArithmeticAssumption ==
  /\ SizeValues \in Nat \ {0} /\ IntValues \in Nat \ {0}
  /\ MB \in Nat \ {0} /\ SegmentSize \in Nat \ {0} /\ NumSegments \in Nat
  /\ IntValues % 2 = 0
  /\ SizeValues % (IntValues * SegmentSize) = 0
  /\ MB <= SegmentSize
  /\ NumSegments < IntValues \div 2

VARIABLES
  size,       \* requested_size, any uint64 a client can send
  free_size,  \* free_list_.size()
  reply       \* what AllocateMemory makes of it

arithmeticVars == <<size, free_size, reply>>

SizeT == 0 .. SizeValues - 1

ToSizeT(x) == x % SizeValues

IntMax == IntValues \div 2 - 1

\* Conversion to int keeps the low bits.
ToInt(x) ==
  LET low == x % IntValues
  IN IF low <= IntMax THEN low ELSE low - IntValues

\* Sizes the client can send: an int number of MB that stoi accepts, above 0.
ClientSizes == {mb * MB : mb \in 1 .. IntMax}

\* Mutant: the quotient is not rounded up.
SegmentsBelow(x) == ToInt(x \div SegmentSize)

\* int num_buf = (x + SEGMENT_SIZE - 1) / SEGMENT_SIZE
NumBuf(x) == ToInt(ToSizeT(x + SegmentSize - 1) \div SegmentSize)

\* Mutant: the reply repeats the size of the request.
TotalSizeAsRequested(x) == x

\* size_t total_size = num_buf * SEGMENT_SIZE
TotalSize(x) == ToSizeT(NumBuf(x) * SegmentSize)

\* Mutant: >= for >.
TooFewOrEqual(n, free) == n >= free

\* num_buf > static_cast<int>(free_list_.size())
TooFew(n, free) == n > free

\* Allocate(total): how many buffers the loop takes and what is returned.  A
\* negative num_buf takes none, and mmap refuses a length of 0.
Allocate(total, free) ==
  LET n == NumBuf(total) IN
  CASE total = 0 -> [result |-> -1, taken |-> 0]
    [] total # 0 /\ TooFew(n, free) -> [result |-> ToInt(n - free), taken |-> 0]
    [] total # 0 /\ ~TooFew(n, free) /\ n <= 0 -> [result |-> -1, taken |-> 0]
    [] OTHER -> [result |-> 0, taken |-> n]

None == [status |-> "none", taken |-> 0, total_size |-> 0]

\* What AllocateMemory answers to a request of x bytes.
Reply(x, free) ==
  LET a == Allocate(TotalSize(x), free)
  IN [status |-> IF a.result = 0 THEN "OK" ELSE "RESOURCE_EXHAUSTED",
      taken |-> a.taken,
      total_size |-> IF a.result = 0 THEN TotalSize(x) ELSE 0]

AllocateMemory ==
  /\ reply = None
  /\ reply' = Reply(size, free_size)
  /\ UNCHANGED <<size, free_size>>

ArithmeticInit ==
  /\ size \in SizeT
  /\ free_size \in 0 .. NumSegments
  /\ reply = None

ArithmeticNext == AllocateMemory

ArithmeticSpec == ArithmeticInit /\ [][ArithmeticNext]_arithmeticVars

-----------------------------------------------------------------------------
\* The least number of segments that holds x bytes, without any width.
Needed(x) == CHOOSE k \in 0 .. x : k * SegmentSize >= x /\ (k - 1) * SegmentSize < x

\* For every uint64 a client may send, a reply that grants names as many bytes as
\* the segment has, at least one buffer and no more than were free: the service's
\* rounding and the pool's own agree, also after truncation to int.
GrantMatchesReply ==
  reply.status = "OK" =>
    /\ reply.taken \in 1 .. free_size
    /\ reply.total_size = reply.taken * SegmentSize

\* For the sizes client.cpp can send, no width is felt: the request is granted
\* exactly if the least number of segments that holds it is free, and then with
\* that number of segments.
ClientServedExactly ==
  size \in ClientSizes /\ reply # None =>
    /\ reply.status = "OK" <=> Needed(size) <= free_size
    /\ reply.status = "OK" => reply.taken = Needed(size)
=============================================================================
