------------------------------- MODULE ByteArray ------------------------------
(* sylar/bytearray.cc: bytes in a list of blocks of one size, read and written *)
(* at a position, with typed values on top; and the reads and writes of        *)
(* sylar/streams/socket_stream.cc into and out of its blocks.  Bytes and       *)
(* values are narrower than the code's (8 and 64 bits), and every width is a   *)
(* parameter.                                                                  *)
EXTENDS Integers, Sequences, FiniteSets, SequencesExt

CONSTANTS
    Bases,      \* block sizes (m_baseSize); a behaviour has one
    GroupBits,  \* bits of a varint's group: 7; a byte has one more
    Bytes,      \* bytes of a fixed-length value: 2, 4 or 8
    Numbers,  \* the unsigned values written
    SignedNumbers,  \* the signed values written
    Strings,    \* the strings written
    MaxSize,    \* bound: bytes
    MaxOps      \* bound: operations in one behaviour

Group == 2 ^ GroupBits
Byte == 0..2 * Group - 1
Width == Bytes * (GroupBits + 1)
Unsigned(v) == v % (2 ^ Width)
Signed(v) == IF v >= 2 ^ (Width - 1) THEN v - 2 ^ Width ELSE v

Unset == -1       \* a byte nobody wrote
NULL == 0       \* no block; the others are numbered from 1

VARIABLES
    ba,         \* the ByteArray
    flat,       \* the bytes 0..m_size-1 as the operations define them
    items,      \* values written and not overwritten since
    got,        \* what the last read of a value returned, and the value due
    ops         \* operations so far

vars == <<ba, flat, items, got, ops>>

-----------------------------------------------------------------------------
(* Blocks *)

ByteArray(base) ==
    [base |-> base, position |-> 0, capacity |-> base, size |-> 0, little |-> FALSE, cur |-> 1,
     mem |-> <<[i \in 1..base |-> Unset]>>]

getReadSize(b) == b.size - b.position
getCapacity(b) == b.capacity - b.position

\* The k-th byte from offset npos of a block, and the block reached after n.
BlockOf(b, cur, npos, k) == cur + (npos + k) \div b.base
BlockAfter(b, cur, npos, n) ==
    LET c == BlockOf(b, cur, npos, n) IN IF c > Len(b.mem) THEN NULL ELSE c

\* The bytes the copying loop takes from the blocks.
Copied(b, cur, npos, n) ==
    [k \in 1..n |-> b.mem[BlockOf(b, cur, npos, k - 1)][((npos + k - 1) % b.base) + 1]]

addCapacity_KeepsCur(b, size) ==        \* mutant: m_cur stays NULL
    LET count == (size - getCapacity(b) + b.base - 1) \div b.base
    IN  IF getCapacity(b) >= size THEN b
        ELSE [b EXCEPT !.capacity = @ + count * b.base,
                       !.mem = @ \o [i \in 1..count |-> [j \in 1..b.base |-> Unset]]]

\* New blocks at the end; the first is current if there was none left.
addCapacity(b, size) ==
    LET count == (size - getCapacity(b) + b.base - 1) \div b.base
    IN  IF getCapacity(b) >= size THEN b
        ELSE [b EXCEPT !.capacity = @ + count * b.base,
                       !.mem = @ \o [i \in 1..count |-> [j \in 1..b.base |-> Unset]],
                       !.cur = IF getCapacity(b) = 0 THEN Len(b.mem) + 1 ELSE @]

Larger(m, n) == IF m > n THEN m ELSE n

\* The bytes into the blocks from m_cur on; a block filled to its end is left.
Fill(b, bytes) ==
    LET npos == b.position % b.base
        index(c, i) == (c - b.cur) * b.base + i - npos
    IN  [b EXCEPT !.mem = [c \in 1..Len(b.mem) |-> [i \in 1..b.base |->
                              IF index(c, i) \in 1..Len(bytes) THEN bytes[index(c, i)] ELSE b.mem[c][i]]]]

\* (addCapacity leaves m_cur null in no state: CurAgrees.)
write(b, bytes) ==
    IF bytes = <<>> THEN b
    ELSE LET a == addCapacity(b, Len(bytes))
             end == a.position + Len(bytes)
         IN  IF a.cur = NULL THEN a
             ELSE [Fill(a, bytes) EXCEPT
                       !.position = end,
                       !.size = Larger(@, end),
                       !.cur = BlockAfter(a, a.cur, a.position % a.base, Len(bytes))]

\* A read ends well ("ok"), throws out_of_range, or follows the null pointer of
\* an array read to the end of its last block, even if it is of no bytes.
read(b, n) ==
    IF n > getReadSize(b) THEN [out |-> "throws", bytes |-> <<>>, b |-> b]
    ELSE IF b.cur = NULL THEN [out |-> "null", bytes |-> <<>>, b |-> b]
    ELSE [out |-> "ok",
          bytes |-> Copied(b, b.cur, b.position % b.base, n),
          b |-> [b EXCEPT !.position = @ + n,
                          !.cur = BlockAfter(b, b.cur, b.position % b.base, n)]]

\* read at another position finds its block from the root, but takes the
\* block's size from m_cur.
readAt(b, n, position) ==
    IF n > b.size - position THEN [out |-> "throws", bytes |-> <<>>]
    ELSE IF b.cur = NULL THEN [out |-> "null", bytes |-> <<>>]
    ELSE [out |-> "ok", bytes |-> Copied(b, 1 + position \div b.base, position % b.base, n)]

toString(b) == IF getReadSize(b) = 0 THEN <<>> ELSE readAt(b, getReadSize(b), b.position).bytes

setPosition_Ge(b, v) ==                 \* mutant: the block filled to its end is kept
    [b EXCEPT !.position = v, !.size = Larger(@, v), !.cur = (Larger(v, 1) - 1) \div b.base + 1]

\* The walk from the root.
setPosition(b, v) ==
    [b EXCEPT !.position = v, !.size = Larger(@, v),
              !.cur = IF v \div b.base = Len(b.mem) THEN NULL ELSE v \div b.base + 1]

\* The first block and what is in it stay.
clear(b) == [b EXCEPT !.position = 0, !.size = 0, !.capacity = b.base, !.cur = 1,
                      !.mem = <<b.mem[1]>>]

\* Pieces <<block, from, length>> of n bytes from offset npos of a block: the
\* loop that fills the iovecs.
Pieces_NoReset(b, cur, npos, n) ==      \* mutant: npos = 0 forgotten
    LET last == (npos + n - 1) \div b.base
    IN  [i \in 1..last + 1 |->
            <<cur + i - 1, npos,
              IF i = last + 1 THEN ((npos + n - 1) % b.base) + 1 - (IF i = 1 THEN npos ELSE 0)
              ELSE b.base - (IF i = 1 THEN npos ELSE 0)>>]

Pieces(b, cur, npos, n) ==
    LET last == (npos + n - 1) \div b.base
        from(i) == IF i = 1 THEN npos ELSE 0
        to(i) == IF i = last + 1 THEN ((npos + n - 1) % b.base) + 1 ELSE b.base
    IN  [i \in 1..last + 1 |-> <<cur + i - 1, from(i), to(i) - from(i)>>]

\* The bytes in the pieces; what lies beyond the block is nobody's.
InPieces(b, pieces) ==
    FlattenSeq([i \in 1..Len(pieces) |->
        [k \in 1..pieces[i][3] |->
            IF pieces[i][2] + k \in 1..b.base THEN b.mem[pieces[i][1]][pieces[i][2] + k] ELSE Unset - 1]])

getReadBuffers(b, len) ==
    LET n == IF len > getReadSize(b) THEN getReadSize(b) ELSE len
    IN  IF n = 0 THEN <<>> ELSE Pieces(b, b.cur, b.position % b.base, n)

\* The array with room for the bytes; the pieces start at m_cur.
getWriteBuffers(b, len) ==
    LET a == addCapacity(b, len) IN [b |-> a, pieces |-> Pieces(a, a.cur, a.position % a.base, len)]

\* writeToFile writes min(read_size, m_baseSize) - diff bytes of each block.
\* With diff > 0 this may miss bytes of the block, or be negative; then, and
\* behind the last block, what the file gets is nobody's.
writeToFile(b) ==
    LET after[i \in 0..Len(b.mem) + 1] ==
            IF i = 0 THEN [left |-> getReadSize(b), pos |-> b.position, bytes |-> <<>>]
            ELSE LET s == after[i - 1]
                     cur == b.cur + i - 1
                     diff == s.pos % b.base
                     len == (IF s.left > b.base THEN b.base ELSE s.left) - diff
                 IN  IF s.left <= 0 THEN s
                     ELSE IF len <= 0 \/ cur > Len(b.mem) \/ b.cur = NULL
                     THEN [left |-> 0, pos |-> s.pos, bytes |-> s.bytes \o <<Unset - 1>>]
                     ELSE [left |-> s.left - len, pos |-> s.pos + len,
                           bytes |-> s.bytes \o SubSeq(b.mem[cur], diff + 1, diff + len)]
    IN  after[Len(b.mem) + 1].bytes

\* readFromFile writes what it read a block's length at a time.
readFromFile(b, bytes) ==
    LET after[i \in 0..Len(bytes) \div b.base + 1] ==
            IF i = 0 THEN b
            ELSE LET end == i * b.base
                 IN  write(after[i - 1], SubSeq(bytes, end - b.base + 1,
                                                IF end > Len(bytes) THEN Len(bytes) ELSE end))
    IN  after[Len(bytes) \div b.base + 1]

-----------------------------------------------------------------------------
(* Values *)

\* The bytes of a value in the array's order; the host is little-endian.
Fixed(b, v, n) ==
    LET low == [i \in 1..n |-> (v \div (2 * Group) ^ (i - 1)) % (2 * Group)]
    IN  IF b.little THEN low ELSE Reverse(low)

FixedValue(b, bytes) ==
    LET low == IF b.little THEN bytes ELSE Reverse(bytes)
        sum[i \in 0..Len(bytes)] == IF i = 0 THEN 0 ELSE sum[i - 1] + low[i] * (2 * Group) ^ (i - 1)
    IN  sum[Len(bytes)]

\* writeUint32, writeUint64: groups of bits, the lowest first, all but the last
\* marked.
Varint[v \in Nat] ==
    IF v < Group THEN <<v>> ELSE <<(v % Group) + Group>> \o Varint[v \div Group]

EncodeZigzag_Ones(v) == IF v < 0 THEN Unsigned(-v) * 2 + 1 ELSE v * 2        \* mutant: + for -

EncodeZigzag(v) == Unsigned(IF v < 0 THEN Unsigned(-v) * 2 - 1 ELSE v * 2)

\* (v >> 1) ^ -(v & 1)
DecodeZigzag(v) == IF v % 2 = 0 THEN v \div 2 ELSE -(v \div 2) - 1

\* readUint32, readUint64: at most so many bytes that their groups reach the
\* width.
readUint(b) ==
    LET rounds == (Width + GroupBits - 1) \div GroupBits
        after[i \in 0..rounds] ==
            IF i = 0 THEN [out |-> "ok", value |-> 0, more |-> TRUE, b |-> b]
            ELSE LET s == after[i - 1]
                     r == read(s.b, 1)
                 IN  IF s.out # "ok" \/ ~s.more THEN s
                     ELSE IF r.out # "ok" THEN [s EXCEPT !.out = r.out, !.b = r.b]
                     ELSE [out |-> "ok", b |-> r.b, more |-> r.bytes[1] >= Group,
                           value |-> Unsigned(s.value + (r.bytes[1] % Group) * Group ^ (i - 1))]
    IN  after[rounds]

readFixed(b, n) ==
    LET r == read(b, n)
    IN  [out |-> r.out, b |-> r.b, value |-> IF r.out = "ok" THEN FixedValue(b, r.bytes) ELSE 0]

\* A string is its length and its bytes: the length is read, and the position
\* is behind it, before the bytes turn out to be missing.
readString(b, type) ==
    LET length == IF type = "StringVint" THEN readUint(b) ELSE readFixed(b, Bytes)
        r == read(length.b, length.value)
    IN  IF length.out # "ok" THEN [out |-> length.out, value |-> <<>>, b |-> length.b]
        ELSE [out |-> r.out, value |-> r.bytes, b |-> r.b]

Type == {"Fint8", "Fixed", "Signed", "Uint", "Int", "StringF", "StringVint", "Raw"}

ValuesOf(type) ==
    CASE type = "Fint8" -> Numbers \cap Byte
      [] type \in {"Fixed", "Uint"} -> Numbers
      [] type \in {"Signed", "Int"} -> SignedNumbers
      [] OTHER -> Strings

\* The bytes the write function of the type writes, and in which calls.
Encoded(b, type, v) ==
    CASE type = "Fint8" -> <<Fixed(b, v, 1)>>
      [] type = "Fixed" -> <<Fixed(b, v, Bytes)>>
      [] type = "Signed" -> <<Fixed(b, Unsigned(v), Bytes)>>
      [] type = "Uint" -> <<Varint[v]>>
      [] type = "Int" -> <<Varint[EncodeZigzag(v)]>>
      [] type = "StringF" -> <<Fixed(b, Len(v), Bytes), v>>
      [] type = "StringVint" -> <<Varint[Len(v)], v>>
      [] type = "Raw" -> <<v>>

Decoded(b, type) ==
    CASE type = "Fint8" -> readFixed(b, 1)
      [] type = "Fixed" -> readFixed(b, Bytes)
      [] type = "Signed" -> LET r == readFixed(b, Bytes) IN [r EXCEPT !.value = Signed(@)]
      [] type = "Uint" -> readUint(b)
      [] type = "Int" -> LET r == readUint(b) IN [r EXCEPT !.value = DecodeZigzag(@)]
      [] type \in {"StringF", "StringVint"} -> readString(b, type)

-----------------------------------------------------------------------------
(* Operations *)

\* A value as a sequence, so that numbers and strings can be kept side by side.
Boxed(type, v) == IF type \in {"StringF", "StringVint", "Raw"} THEN v ELSE <<v>>

Nothing == [out |-> "ok", value |-> <<>>, due |-> {}, end |-> 0, type |-> "Raw"]

Init ==
    /\ \E base \in Bases : ba = ByteArray(base)
    /\ flat = <<>> /\ items = {} /\ got = Nothing /\ ops = 0

\* A read through the null pointer ends the program.
Operation == ops < MaxOps /\ got.out # "null" /\ ops' = ops + 1

\* The bytes of the array after n of them changed from position p on.
Overwrite(p, bytes) ==
    [i \in 1..Larger(Len(flat), p + Len(bytes)) |->
        IF i \in p + 1..p + Len(bytes) THEN bytes[i - p] ELSE IF i <= Len(flat) THEN flat[i] ELSE Unset]

Intact(p, n) == {it \in items : it.at + it.length <= p \/ p + n <= it.at}

WriteValue(type, v) ==
    LET calls == Encoded(ba, type, v)
        bytes == FlattenSeq(calls)
    IN  /\ Operation
        /\ ba.position + Len(bytes) <= MaxSize
        /\ ba' = write(write(ba, calls[1]), IF Len(calls) = 2 THEN calls[2] ELSE <<>>)
        /\ flat' = Overwrite(ba.position, bytes)
        /\ items' = Intact(ba.position, Len(bytes)) \cup
               IF type = "Raw" THEN {}
               ELSE {[at |-> ba.position, type |-> type, value |-> Boxed(type, v), length |-> Len(bytes),
                      little |-> ba.little]}
        /\ got' = Nothing

ReadValue(type) ==
    LET r == Decoded(ba, type)
        here == {it \in items : it.at = ba.position /\ it.type = type /\ it.little = ba.little}
    IN  /\ Operation
        /\ \A i \in ba.position + 1..Len(flat) : flat[i] # Unset
        /\ ba' = r.b
        /\ got' = [out |-> r.out, value |-> Boxed(type, r.value), due |-> {it.value : it \in here},
                   end |-> IF here = {} THEN 0 ELSE ba.position + (CHOOSE it \in here : TRUE).length,
                   type |-> type]
        /\ UNCHANGED <<flat, items>>

\* Above the capacity setPosition throws.
SetPosition(v) ==
    /\ Operation
    /\ v <= ba.capacity
    /\ ba' = setPosition(ba, v)
    /\ flat' = Overwrite(v, <<>>)
    /\ got' = Nothing
    /\ UNCHANGED items

Clear ==
    /\ Operation
    /\ ba' = clear(ba) /\ flat' = <<>> /\ items' = {} /\ got' = Nothing

SetIsLittleEndian ==
    /\ Operation
    /\ ba' = [ba EXCEPT !.little = ~@] /\ got' = Nothing
    /\ UNCHANGED <<flat, items>>

ReadFromFile(bytes) ==
    /\ Operation
    /\ ba.position + Len(bytes) <= MaxSize
    /\ ba' = readFromFile(ba, bytes)
    /\ flat' = Overwrite(ba.position, bytes)
    /\ items' = Intact(ba.position, Len(bytes)) /\ got' = Nothing

\* SocketStream::read: recv fills the pieces, and may fill less than all.
Receive(len, bytes) ==
    LET w == getWriteBuffers(ba, len)
    IN  /\ Operation
        /\ Len(bytes) \in 1..len /\ ba.position + len <= MaxSize
        /\ ba' = setPosition(Fill(w.b, bytes), ba.position + Len(bytes))
        /\ flat' = Overwrite(ba.position, bytes)
        /\ items' = Intact(ba.position, Len(bytes)) /\ got' = Nothing

\* SocketStream::write: send takes the first bytes of the pieces.
Send(n) ==
    /\ Operation
    /\ n \in 1..getReadSize(ba)
    /\ ba' = setPosition(ba, ba.position + n) /\ got' = Nothing
    /\ UNCHANGED <<flat, items>>

Next ==
    \/ \E type \in Type : \E v \in ValuesOf(type) : WriteValue(type, v)
    \/ \E type \in Type \ {"Raw"} : ReadValue(type)
    \/ \E v \in 0..MaxSize : SetPosition(v)
    \/ Clear \/ SetIsLittleEndian
    \/ \E s \in Strings : ReadFromFile(s)
    \/ \E s \in Strings, len \in 1..MaxSize : Receive(len, s)
    \/ \E n \in 1..MaxSize : Send(n)

Spec == Init /\ [][Next]_vars

-----------------------------------------------------------------------------

\* The fields have their types (class ByteArray).
TypeOK ==
    /\ ba.position \in 0..MaxSize /\ ba.size \in 0..MaxSize /\ ba.capacity \in Nat
    /\ ba.cur \in 0..Len(ba.mem) /\ ba.little \in BOOLEAN
    /\ \A c \in 1..Len(ba.mem) : ba.mem[c] \in [1..ba.base -> Byte \cup {Unset}]
    /\ flat \in Seq(Byte \cup {Unset})
    /\ got.out \in {"ok", "throws", "null"} /\ ops \in 0..MaxOps

\* m_cur is the block of m_position, and null exactly when the position is at
\* the end of the last block; the capacity is what the blocks hold, and
\* position, size and capacity are in order (write, read, setPosition,
\* addCapacity, clear, which all move m_cur in their own way).
CurAgrees ==
    /\ ba.capacity = Len(ba.mem) * ba.base
    /\ ba.position <= ba.size /\ ba.size <= ba.capacity /\ ba.size = Len(flat)
    /\ ba.cur = IF ba.position = ba.capacity THEN NULL ELSE ba.position \div ba.base + 1

\* A value is read back where it was written, in the same byte order and by the
\* function of its type, whatever its width and the blocks it lies across, and
\* the position is behind it; only an empty string at the end of the last block
\* follows a null pointer instead (read is called for no bytes).
RoundTrip ==
    got.due # {} =>
        \/ got.out = "ok" /\ got.due = {got.value} /\ ba.position = got.end
        \/ got.out = "null" /\ got.due = {<<>>} /\ ba.position = ba.capacity /\ got.end = ba.capacity

Same(bytes, due) ==
    Len(bytes) = Len(due) /\ \A i \in 1..Len(due) : due[i] = Unset \/ bytes[i] = due[i]

\* The rest of the array is the same bytes through toString, through the blocks
\* SocketStream::write hands to send, and, from the beginning of a block, in
\* the file writeToFile writes; the blocks handed to recv are the next bytes of
\* the array, whatever was there (getReadBuffers, getWriteBuffers).
BuffersAgree ==
    LET rest == SubSeq(flat, ba.position + 1, ba.size)
        w(n) == getWriteBuffers(ba, n)
    IN  /\ Same(toString(ba), rest)
        /\ \A n \in 1..MaxSize : Same(InPieces(ba, getReadBuffers(ba, n)),
                                      SubSeq(rest, 1, IF n > Len(rest) THEN Len(rest) ELSE n))
        /\ ba.position % ba.base = 0 => Same(writeToFile(ba), rest)
        /\ \A n \in 1..MaxSize :
               InPieces(w(n).b, w(n).pieces) = SubSeq(FlattenSeq(w(n).b.mem), ba.position + 1, ba.position + n)
=============================================================================
