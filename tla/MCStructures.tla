----------------------------- MODULE MCStructures -----------------------------
(* The data structures, one in a behaviour: the ByteArray of the streams and   *)
(* the SkipList of the key-value server.                                       *)
EXTENDS Integers, Sequences

CONSTANTS Bases, GroupBits, Bytes, Numbers, SignedNumbers, Strings, MaxSize, MaxOps,
          Key, Value, MaxLevel, MaxCount, Header, None

VARIABLES
    structure,                      \* which of the two
    ba, flat, items, got, ops,      \* of ByteArray
    list, dict, loaded, dump, count \* of SkipList

bytesVars == <<ba, flat, items, got, ops>>
listVars == <<list, dict, loaded, dump, count>>

B == INSTANCE ByteArray
S == INSTANCE SkipList WITH NULL <- None

Init ==
    \/ /\ structure = "bytes" /\ B!Init
       /\ list = None /\ dict = None /\ loaded = None /\ dump = None /\ count = None
    \/ /\ structure = "list" /\ S!Init
       /\ ba = None /\ flat = None /\ items = None /\ got = None /\ ops = None

Next ==
    \/ structure = "bytes" /\ B!Next /\ UNCHANGED <<structure, listVars>>
    \/ structure = "list" /\ S!Next /\ UNCHANGED <<structure, bytesVars>>

Spec == Init /\ [][Next]_<<structure, bytesVars, listVars>>

\* The fields of class ByteArray and class SkipList have their types.
TypeOK ==
    /\ structure = "bytes" => B!TypeOK
    /\ structure = "list" => S!TypeOK

\* ByteArray::write, read, setPosition: m_cur is the block of m_position
\* (ByteArray!CurAgrees).
CurAgrees == structure = "bytes" => B!CurAgrees

\* ByteArray: what a write function wrote, its read function returns
\* (ByteArray!RoundTrip).
RoundTrip == structure = "bytes" => B!RoundTrip

\* ByteArray::getReadBuffers, getWriteBuffers, toString, writeToFile show the
\* same bytes (ByteArray!BuffersAgree).
BuffersAgree == structure = "bytes" => B!BuffersAgree

\* SkipList: sorted, nested levels, and every search finds what was stored
\* (SkipList!ListAgrees).
ListAgrees == structure = "list" => S!ListAgrees

\* SkipList::dump_file, load_file: what is loaded has the values that were
\* dumped, as note/raft.md:44 asks (SkipList!RestoredValues).  A run refutes it.
RestoredValues == structure = "list" => S!RestoredValues

-----------------------------------------------------------------------------
(* Bytes of four bits, values of eight: a varint has three groups, the last    *)
(* one cut, as the code's 32 and 64 bits have in groups of seven.              *)

SmallestToLargest == {-128, -1}
SomeStrings == {<<>>, <<5>>, <<5, 6, 7>>}

ASSUME BoundsAssumption ==
    /\ Bases \subseteq Nat \ {0} /\ GroupBits \in Nat \ {0} /\ Bytes \in Nat \ {0}
    /\ Numbers \subseteq 0..2 ^ B!Width - 1
    /\ SignedNumbers \subseteq -(2 ^ (B!Width - 1))..2 ^ (B!Width - 1) - 1
    /\ \A s \in Strings : s \in Seq(B!Byte) /\ Len(s) < 2 ^ B!Width
    /\ MaxSize \in Nat /\ MaxOps \in Nat
    /\ Key \subseteq Nat /\ MaxLevel \in Nat \ {0} /\ MaxCount \in Nat
    /\ Header \notin Key /\ None \notin Key \cup Value \cup {Header}

\* What the proofs use of exponentiation, of which the prover knows nothing.
ASSUME PowersAssumption ==
    LET rounds == (B!Width + GroupBits - 1) \div GroupBits
    IN  /\ B!Group \in Nat \ {0, 1}
        /\ \A i \in 0..Bytes : (2 * B!Group) ^ i \in Nat \ {0}
        /\ \A i \in 1..Bytes : (2 * B!Group) ^ i = (2 * B!Group) ^ (i - 1) * (2 * B!Group)
        /\ \A i \in 0..rounds : B!Group ^ i \in Nat \ {0}
        /\ \A i \in 1..rounds : B!Group ^ i = B!Group ^ (i - 1) * B!Group
        /\ (2 * B!Group) ^ 0 = 1 /\ B!Group ^ 0 = 1
        /\ 2 ^ B!Width = 2 * 2 ^ (B!Width - 1) /\ 2 ^ (B!Width - 1) \in Nat \ {0}
        /\ 2 ^ B!Width = (2 * B!Group) ^ Bytes /\ 2 ^ B!Width <= B!Group ^ rounds
=============================================================================
