----------------------------- MODULE FileWriter ------------------------------
(***************************************************************************)
(* The buffered file of libobs (util/buffered-file-serializer.c): a writer *)
(* (the thread that muxes, mp4-output.c) appends pieces of its data, each  *)
(* with the position it belongs to, to a bounded buffer; an I/O thread     *)
(* collects adjacent pieces into a chunk and writes the chunk out, seeking *)
(* where the positions jump.  Two auto-reset events say that there is data *)
(* and that there is room.                                                 *)
(*                                                                         *)
(* A unit of data stands for many bytes; its value is its number in the    *)
(* order of the writes.                                                    *)
(***************************************************************************)
EXTENDS Integers, Sequences, FiniteSetsExt

CONSTANTS
    ChunkSize,    \* chunk_size
    MinFlush,     \* 65536: a smaller chunk waits for more data
    BufferSize,   \* buffer_size
    Reserved,     \* the capacity the buffer starts with
    HeaderSize,   \* sizeof(struct io_header)
    Sizes,        \* sizes of the writes
    MaxPos,       \* bound: positions of the file
    MaxUnits,     \* bound: units written in all
    MaxSeeks,     \* bound: seeks
    MaxFails      \* bound: failing writes to the file

ASSUME FileAssumption ==
    /\ {ChunkSize, HeaderSize, Reserved, BufferSize} \subseteq Nat \ {0}
    /\ {MinFlush, MaxPos, MaxUnits, MaxSeeks, MaxFails} \subseteq Nat
    /\ Sizes \subseteq Nat \ {0}

VARIABLES
    queue,       \* data: pieces with their seek_offset
    capacity,    \* data.capacity
    nextPos,     \* next_pos
    spaceEvent,  \* buffer_space_available_event
    dataEvent,   \* new_data_available_event
    shutdown,    \* shutdown_requested
    error,       \* output_error
    wpc,         \* where the writer is
    rest,        \* what is left of the buffer it writes
    io,          \* the I/O thread: where it is, and its local variables
    disk,        \* the file: the unit at each position
    filePos,     \* the position of the FILE
    used         \* units, seeks and failures so far

writer == <<wpc, rest>>
buffer == <<queue, capacity, nextPos>>
vars   == <<buffer, spaceEvent, dataEvent, shutdown, error, writer, io, disk, filePos, used>>

Positions == 0 .. MaxPos

Least(a, b) == IF a < b THEN a ELSE b

(* The units of s from position p on, and those of some pieces in turn *)
AtPos(s, p) == [i \in 1 .. Len(s) |-> [pos |-> p + i - 1, byte |-> s[i]]]

Placed(q) ==
    LET upto[n \in 0 .. Len(q)] ==
            IF n = 0 THEN <<>> ELSE upto[n - 1] \o AtPos(q[n].data, q[n].pos)
    IN  upto[Len(q)]

Units(q) == [i \in DOMAIN Placed(q) |-> Placed(q)[i].byte]
Size(q)  == Len(q) * HeaderSize + Len(Placed(q))

Init ==
    /\ queue = <<>> /\ capacity = Reserved /\ nextPos = 0
    /\ spaceEvent = FALSE /\ dataEvent = FALSE
    /\ shutdown = FALSE /\ error = FALSE
    /\ wpc = "idle" /\ rest = <<>>
    /\ io = [pc |-> "wait", chunk |-> <<>>, wantSeek |-> FALSE, cur |-> 0, seekTo |-> 0]
    /\ disk = [p \in Positions |-> 0] /\ filePos = 0
    /\ used = [unit |-> 0, seek |-> 0, fail |-> 0]

-----------------------------------------------------------------------------
(* The writer                                                               *)

(* file_output_write is called *)
Write(n) ==
    /\ wpc = "idle" /\ ~shutdown
    /\ used.unit + n <= MaxUnits /\ nextPos + n - 1 <= MaxPos
    /\ used' = [used EXCEPT !.unit = @ + n]
    /\ rest' = [i \in 1 .. n |-> used.unit + i]
    /\ wpc' = "write"
    /\ UNCHANGED <<buffer, spaceEvent, dataEvent, shutdown, error, io, disk, filePos>>

(* deque_ensure_capacity, when the buffer has grown to size n *)
Grown(c, n) == IF n <= c THEN c ELSE IF n > 2 * c THEN n ELSE 2 * c

(* mutant: a buffer that is too small is simply enlarged *)
FreeUnlimited == BufferSize + MaxUnits - Size(queue)

Free == (IF capacity > BufferSize THEN capacity ELSE BufferSize) - Size(queue)

(* One header and one piece of what is left go to the back of the buffer *)
PushPiece(b) ==
    LET n == Least(Len(b.rest), ChunkSize)
        c == Grown(b.capacity, Size(b.queue) + HeaderSize) IN
    [queue |-> Append(b.queue, [pos |-> b.pos, data |-> SubSeq(b.rest, 1, n)]),
     capacity |-> Grown(c, Size(b.queue) + HeaderSize + n),
     pos |-> b.pos + n,
     rest |-> SubSeq(b.rest, n + 1, Len(b.rest))]

(* The buffer after at most n pieces: while (remaining && num_chunks--) *)
Pushed(n) ==
    LET now == [queue |-> queue, capacity |-> capacity, pos |-> nextPos, rest |-> rest]
        More(b) == IF b.rest = <<>> THEN b ELSE PushPiece(b)
        after[i \in 0 .. n] == IF i = 0 THEN now ELSE More(after[i - 1])
    IN  after[n]

(* One round of the loop: give up, wait for room, or push what fits *)
WriteStep ==
    LET need == Least(Len(rest), ChunkSize) + HeaderSize
        new  == Pushed(Free \div need) IN
    /\ wpc = "write"
    /\ \/ /\ error
          /\ wpc' = "idle" /\ rest' = <<>>
          /\ UNCHANGED <<buffer, spaceEvent, dataEvent>>
       \/ /\ ~error /\ Free < need
          /\ spaceEvent' = FALSE /\ wpc' = "blocked"
          /\ UNCHANGED <<buffer, rest, dataEvent>>
       \/ /\ ~error /\ Free >= need
          /\ queue' = new.queue /\ capacity' = new.capacity
          /\ nextPos' = new.pos /\ rest' = new.rest
          /\ dataEvent' = TRUE
          /\ wpc' = IF new.rest = <<>> THEN "idle" ELSE "write"
          /\ UNCHANGED spaceEvent
    /\ UNCHANGED <<shutdown, error, io, disk, filePos, used>>

(* os_event_wait returns: the event resets itself *)
WriteWake ==
    /\ wpc = "blocked" /\ spaceEvent
    /\ spaceEvent' = FALSE /\ wpc' = "write"
    /\ UNCHANGED <<buffer, dataEvent, shutdown, error, rest, io, disk, filePos, used>>

(* file_output_seek with SERIALIZE_SEEK_START, the one the muxer uses *)
Seek(p) ==
    /\ wpc = "idle" /\ ~shutdown /\ ~error
    /\ used.seek < MaxSeeks /\ p # nextPos
    /\ used' = [used EXCEPT !.seek = @ + 1]
    /\ nextPos' = p
    /\ UNCHANGED <<queue, capacity, spaceEvent, dataEvent, shutdown, error, writer, io, disk, filePos>>

(* buffered_file_serializer_free: ask, wake, join *)
FreeBegin ==
    /\ wpc = "idle" /\ ~shutdown
    /\ shutdown' = TRUE /\ wpc' = "freeing"
    /\ UNCHANGED <<buffer, spaceEvent, dataEvent, error, rest, io, disk, filePos, used>>

(* mutant: the I/O thread is not woken to end *)
FreeSignalNot ==
    /\ wpc = "freeing"
    /\ wpc' = "joining"
    /\ UNCHANGED <<buffer, spaceEvent, dataEvent, shutdown, error, rest, io, disk, filePos, used>>

FreeSignal ==
    /\ wpc = "freeing"
    /\ dataEvent' = TRUE /\ wpc' = "joining"
    /\ UNCHANGED <<buffer, spaceEvent, shutdown, error, rest, io, disk, filePos, used>>

FreeJoin ==
    /\ wpc = "joining" /\ io.pc = "exit"
    /\ wpc' = "closed"
    /\ UNCHANGED <<buffer, spaceEvent, dataEvent, shutdown, error, rest, io, disk, filePos, used>>

-----------------------------------------------------------------------------
(* The I/O thread                                                           *)

IoWake ==
    /\ io.pc = "wait" /\ dataEvent
    /\ dataEvent' = FALSE /\ io' = [io EXCEPT !.pc = "fetch"]
    /\ UNCHANGED <<buffer, spaceEvent, shutdown, error, writer, disk, filePos, used>>

(* mutant: the room in the chunk is not looked at *)
AdjacentUnbounded(p, n) ==
    LET Before(i) == Len(Placed(SubSeq(queue, 1, i - 1)))
        Fits(i)   == queue[i].pos = p + Before(i) IN
    Max({k \in 0 .. Len(queue) : \A i \in 1 .. k : Fits(i)})

(* The pieces that follow position p without a gap and fit behind n units *)
Adjacent(p, n) ==
    LET Before(i) == Len(Placed(SubSeq(queue, 1, i - 1)))
        Fits(i)   == /\ queue[i].pos = p + Before(i)
                     /\ n + Before(i + 1) <= ChunkSize IN
    Max({k \in 0 .. Len(queue) : \A i \in 1 .. k : Fits(i)})

(* mutant: a jump is adopted although part of a chunk waits for its place *)
JumpsEarly ==
    /\ queue # <<>> /\ queue[1].pos # io.cur
    /\ ~io.wantSeek

(* The next piece lies elsewhere, and nothing is in hand: adopt its place *)
Jumps ==
    /\ queue # <<>> /\ queue[1].pos # io.cur
    /\ io.chunk = <<>> /\ ~io.wantSeek

(* Too little to write, for now *)
Keeps(chunk) == chunk = <<>> \/ (Len(chunk) < MinFlush /\ ~shutdown)

(* One pass under the mutex: fill the chunk from the buffer *)
IoFetch ==
    LET start == IF Jumps THEN queue[1].pos ELSE io.cur IN
    /\ io.pc = "fetch"
    /\ \E k \in {Adjacent(start, Len(io.chunk))} :
          LET got   == Units(SubSeq(queue, 1, k))
              chunk == io.chunk \o got
              force == k < Len(queue)                 \* force_flush_chunk
              sleep == ~force /\ Keeps(chunk) IN
          /\ queue' = SubSeq(queue, k + 1, Len(queue))
          /\ io' = [pc |-> IF ~sleep THEN "flush" ELSE IF shutdown THEN "exit" ELSE "wait",
                    chunk |-> chunk, wantSeek |-> io.wantSeek \/ Jumps, cur |-> start + Len(got),
                    seekTo |-> IF Jumps THEN start ELSE io.seekTo]
          /\ dataEvent' = IF sleep THEN FALSE ELSE dataEvent
    /\ spaceEvent' = TRUE
    /\ UNCHANGED <<capacity, nextPos, shutdown, error, writer, disk, filePos, used>>

FlushPos == IF io.wantSeek THEN io.seekTo ELSE filePos

(* The file with the first n units of the chunk written *)
Stored(n) ==
    [p \in Positions |-> IF p - FlushPos \in 0 .. n - 1
                         THEN io.chunk[p - FlushPos + 1] ELSE disk[p]]

(* Seek if need be, and write the chunk *)
IoFlush ==
    /\ io.pc = "flush"
    /\ disk' = Stored(Len(io.chunk))
    /\ filePos' = FlushPos + Len(io.chunk)
    /\ io' = [pc |-> "fetch", chunk |-> <<>>, wantSeek |-> FALSE,
              cur |-> IF io.wantSeek THEN io.seekTo + Len(io.chunk) ELSE io.cur, seekTo |-> io.seekTo]
    /\ UNCHANGED <<buffer, spaceEvent, dataEvent, shutdown, error, writer, used>>

(* fwrite writes less: the thread records the error and ends *)
IoFail ==
    /\ io.pc = "flush" /\ used.fail < MaxFails
    /\ used' = [used EXCEPT !.fail = @ + 1]
    /\ \E n \in 0 .. Len(io.chunk) - 1 :
          /\ disk' = Stored(n)
          /\ filePos' = FlushPos + n
    /\ error' = TRUE
    /\ io' = [io EXCEPT !.pc = "exit"]
    /\ UNCHANGED <<buffer, spaceEvent, dataEvent, shutdown, writer>>

-----------------------------------------------------------------------------
WriterSteps == WriteStep \/ WriteWake \/ FreeSignal \/ FreeJoin
IoSteps     == IoWake \/ IoFetch \/ IoFlush

Next ==
    \/ \E n \in Sizes : Write(n)
    \/ \E p \in Positions : Seek(p)
    \/ FreeBegin \/ WriterSteps
    \/ IoSteps \/ IoFail

Spec == Init /\ [][Next]_vars

(* Both threads keep running; nobody need write more, or close the file *)
FairSpec == Spec /\ WF_vars(WriterSteps) /\ WF_vars(IoSteps)

-----------------------------------------------------------------------------
(* Properties                                                               *)

(* Every variable is of its type, and no local of the I/O thread leaves its *)
(* range: the chunk never exceeds the memory allocated for it.              *)
TypeOK ==
    LET units == 1 .. MaxUnits IN
    /\ queue \in Seq([pos : Nat, data : Seq(units) \ {<<>>}])
    /\ {capacity, nextPos, filePos} \subseteq Nat
    /\ {spaceEvent, dataEvent, shutdown, error} \subseteq BOOLEAN
    /\ wpc \in {"idle", "write", "blocked", "freeing", "joining", "closed"}
    /\ rest \in Seq(units)
    /\ io \in [pc : {"wait", "fetch", "flush", "exit"}, chunk : Seq(units),
               wantSeek : BOOLEAN, cur : Nat, seekTo : Nat]
    /\ Len(io.chunk) <= ChunkSize
    /\ disk \in [Positions -> 0 .. MaxUnits]
    /\ used \in [unit : 0 .. MaxUnits, seek : 0 .. MaxSeeks, fail : 0 .. MaxFails]

(* "Avoid unbounded growth of the deque": it doubles, so it may pass        *)
(* buffer_size, and then by less than a factor of two.                      *)
BufferBounded == capacity < 2 * BufferSize \/ capacity = Reserved

(* The buffer and the thread together are an ordered file.                  *)
Buffered == AtPos(io.chunk, io.cur - Len(io.chunk)) \o Placed(queue)

Abstract == INSTANCE OrderedFile WITH file <- disk, pending <- Buffered, at <- nextPos,
                                      owed <- rest, open <- wpc # "closed", broken <- error

(* Every unit reaches the file in the order of the writes and at the place  *)
(* the writer was at, whatever the pieces, chunks and seeks; a failure      *)
(* leaves a prefix; and after buffered_file_serializer_free none is missing *)
(* unless a write failed.                                                   *)
ImplementsOrderedFile == Abstract!Spec

(* A write returns, unless the file fails under it: the writer never sleeps *)
(* on a buffer that has room, nor the I/O thread on one that has data.      *)
WriteReturns == (wpc \in {"write", "blocked"}) ~> (wpc = "idle" \/ error)

(* Closing the file returns, after a failed write too.                      *)
FreeReturns == (wpc = "freeing") ~> (wpc = "closed")

(* No call on the file waits for ever.                                      *)
CallsReturn == WriteReturns /\ FreeReturns

(* "If the output thread failed, signal that back up the stack"             *)
(* (buffered-file-serializer.c:213): a write under way when the file fails  *)
(* returns.  It does not when the writer sleeps: nothing wakes it.          *)
FailureIsSignalled == (error /\ wpc = "blocked") ~> (wpc # "blocked")

=============================================================================
