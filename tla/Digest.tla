------------------------------- MODULE Digest -------------------------------
(***************************************************************************)
(* The streaming MD5 of jsScript/webmssdk.js, which digests the query that *)
(* is signed.  A message comes in chunks of text or of bytes; characters   *)
(* are 1 to 4 bytes, so that the last one of a block may spill over into   *)
(* an extra word, and a block that is full is compressed at once but       *)
(* cleared only when the next byte comes, or by finalize.                  *)
(*                                                                         *)
(* A byte of the message is its number, 0 is a byte not written.  The      *)
(* compression function is left uninterpreted: the hash state (h0 to h3)   *)
(* is the sequence of the blocks it has absorbed, and `first` says that    *)
(* there is none.  A chunk is the sequence of the widths of its            *)
(* characters; a surrogate pair is not divided between two chunks.         *)
(***************************************************************************)
EXTENDS Integers, Sequences

CONSTANTS
    Block, Word,   \* 64 and 4
    Radix,         \* 2^32: from there on, bytes are counted in hBytes
    Chunks,        \* what update may be given
    MaxBytes       \* no message is longer

\* A character fits the extra word, and the padding the rest of a block.
DigestAssumption ==
    /\ {Word, Radix} \subseteq Nat \ {0} /\ Block \in Nat /\ 3 * Word <= Block
    /\ Chunks \subseteq Seq(1..Word)

VARIABLES
    typed,   \* whether there are typed arrays: they are assigned, words are or-ed
    md       \* the digest object; `given` counts the bytes it was given, for the property

Pad == -1        \* the byte 0x80
Garbled == -2    \* one byte or-ed into another
Tail14 == Block - 2 * Word       \* where the length goes: word 14

Zeros == [i \in 0..(Block + Word - 1) |-> 0]
Fresh == [blocks |-> Zeros, start |-> 0, lastByteIndex |-> 0, bytes |-> 0, hBytes |-> 0,
          finalized |-> FALSE, hashed |-> FALSE, absorbed |-> <<>>, given |-> 0]

Init == typed \in BOOLEAN /\ md = Fresh

\* A digest object is made.  One made for a single call shares its buffer
\* with the others of its kind and clears it, the extra word included.
\* (lastByteIndex is undefined at first, which counts as 0.)
Begin == md' = Fresh /\ UNCHANGED typed

Or(old, new) == IF old = 0 THEN new ELSE Garbled
Put(old, new) == IF typed THEN new ELSE Or(old, new)

\* The block that follows one that is full starts with what spilled over.
NextBlock(b) == [i \in DOMAIN b |-> IF i < Word THEN b[Block + i] ELSE 0]

\* hash: the first sixteen words are compressed.
Whole(b) == [data |-> [i \in 0..(Block - 1) |-> b[i]], length |-> <<>>]

\* One turn of the loops of update: a character of w bytes.
Char(s, w) ==
    LET b == IF s.hashed THEN NextBlock(s.blocks) ELSE s.blocks
        end == s.start + w
        c == [i \in DOMAIN b |-> IF s.start <= i /\ i < end
                                 THEN Put(b[i], s.given + 1 + i - s.start) ELSE b[i]]
    IN  [s EXCEPT !.blocks = c, !.lastByteIndex = end,
                  !.bytes = @ + w, !.given = @ + w,
                  !.hashed = (end >= Block),
                  !.start = IF end >= Block THEN end - Block ELSE end,
                  !.absorbed = IF end >= Block THEN Append(@, Whole(c)) ELSE @]

\* The loop of update.
Fed(s, chunk) ==
    LET turn[i \in 0..Len(chunk)] == IF i = 0 THEN s ELSE Char(turn[i - 1], chunk[i])
    IN  turn[Len(chunk)]

\* update: nothing after finalize, and an exception, before anything is
\* written, for what is neither text nor bytes.
Update(chunk) ==
    LET s == Fed(md, chunk)
    IN  /\ ~md.finalized /\ s.given <= MaxBytes
        /\ md' = [s EXCEPT !.hBytes = @ + s.bytes \div Radix, !.bytes = s.bytes % Radix]
        /\ UNCHANGED typed

\* finalize, which every output calls: the byte 0x80, a block of its own for
\* the length if it has no room, and the length in bits.
FinalizeHashesAgain ==
    LET at == md.lastByteIndex
        b == [md.blocks EXCEPT ![at] = Or(@, Pad)]
        more == at >= Tail14
        c == IF more THEN NextBlock(b) ELSE b
    IN  /\ ~md.finalized
        /\ md' = [md EXCEPT
             !.finalized = TRUE, !.blocks = c,
             !.absorbed = (IF more THEN Append(@, Whole(b)) ELSE @)
                          \o <<[data |-> [i \in 0..(Tail14 - 1) |-> c[i]],
                                length |-> <<(md.bytes * 8) % Radix,
                                             md.hBytes * 8 + (md.bytes * 8) \div Radix>>]>>]
        /\ UNCHANGED typed
Finalize ==
    LET at == md.lastByteIndex
        b == [md.blocks EXCEPT ![at] = Or(@, Pad)]
        more == at >= Tail14
        c == IF more THEN NextBlock(b) ELSE b
    IN  /\ ~md.finalized
        /\ md' = [md EXCEPT
             !.finalized = TRUE, !.blocks = c,
             !.absorbed = (IF more /\ ~md.hashed THEN Append(@, Whole(b)) ELSE @)
                          \o <<[data |-> [i \in 0..(Tail14 - 1) |-> c[i]],
                                length |-> <<(md.bytes * 8) % Radix,
                                             md.hBytes * 8 + (md.bytes * 8) \div Radix>>]>>]
        /\ UNCHANGED typed

Next == Begin \/ Finalize \/ \E chunk \in Chunks : Update(chunk)

vars == <<typed, md>>
Spec == Init /\ [][Next]_vars
-----------------------------------------------------------------------------
\* The message of n bytes, padded as the algorithm demands: 0x80, zeros, and
\* its length in bits, in whole blocks.
Padded(n) ==
    LET k == (n + 1 + 2 * Word + Block - 1) \div Block
        byte(i) == IF i < n THEN i + 1 ELSE IF i = n THEN Pad ELSE 0
        block(j, size) == [i \in 0..(size - 1) |-> byte((j - 1) * Block + i)]
    IN  [j \in 1..k |-> IF j < k
                        THEN [data |-> block(j, Block), length |-> <<>>]
                        ELSE [data |-> block(j, Tail14),
                              length |-> <<(8 * n) % Radix, (8 * n) \div Radix>>]]

\* However a message is cut into chunks, whatever the widths of its
\* characters and wherever its end falls, what is compressed is the message
\* and its padding: no byte is lost, doubled, or left over from another block
\* or another message.
DigestIsPadded == md.finalized => md.absorbed = Padded(md.given)
=============================================================================
