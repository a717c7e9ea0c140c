------------------------------ MODULE AxiStream ------------------------------
(***************************************************************************)
(* Streams of packets, cut into words, and the stages between them.  A     *)
(* stage reads a word from one FIFO and writes one to the next; what it    *)
(* remembers from word to word is in a register.  The FIFOs are q, by      *)
(* their names, and the registers reg.                                     *)
(*                                                                         *)
(* A word holds up to Width units of data; a unit stands for two bytes or  *)
(* for one, as the module that uses it says.  Only the last word of a      *)
(* packet may be shorter.                                                  *)
(***************************************************************************)
EXTENDS Integers, Sequences, SequencesExt

CONSTANT Width

VARIABLES q, reg

Word(data, last) == [data |-> data, last |-> last]
NoWord == Word(<<>>, FALSE)

Least(a, b) == IF a < b THEN a ELSE b
First(n, s) == SubSeq(s, 1, Least(n, Len(s)))
Rest(n, s) == SubSeq(s, n + 1, Len(s))

(* A packet as words, and the units of words.                              *)
Words(units) ==
    LET count == (Len(units) + Width - 1) \div Width
    IN [n \in 1 .. count |-> Word(First(Width, Rest((n - 1) * Width, units)), n = count)]
Units(words) == FlattenSeq([n \in DOMAIN words |-> words[n].data])

(* A header written over the beginning of a word.                          *)
Overwrite(header, word) == [word EXCEPT !.data = header \o Rest(Len(header), @)]

(* A word, or what it has become, goes from one FIFO to the next.          *)
Move(from, to, word) == [q EXCEPT ![from] = Tail(@), ![to] = Append(@, word)]

-----------------------------------------------------------------------------
(* The shifts keep the last word read; it is marked last while its         *)
(* remainder is still to be written.                                       *)

(* rshiftWordByOctet: the first units of each packet are cut off.          *)
RightShifted(prev, data, offset) == Word(Rest(offset, prev.data) \o First(offset, data), Len(data) <= offset)

RightShift(from, to, offset) ==
    \/ /\ q[from] # <<>> /\ ~reg[from].last
       /\ LET word == Head(q[from])
              sent == RightShifted(reg[from], word.data, offset)
              isFirst == reg[from] = NoWord
          IN /\ q' = IF isFirst THEN [q EXCEPT ![from] = Tail(@)] ELSE Move(from, to, sent)
             /\ reg' = [reg EXCEPT ![from] = IF ~isFirst /\ sent.last THEN NoWord ELSE word]
    \/ /\ reg[from].last
       /\ q' = [q EXCEPT ![to] = Append(@, [RightShifted(reg[from], <<>>, offset) EXCEPT !.last = TRUE])]
       /\ reg' = [reg EXCEPT ![from] = NoWord]

(* lshiftWordByOctet: room for a header before each packet.                *)
Gap(n) == [k \in 1 .. n |-> <<"gap">>]

LeftShifted(prev, data, offset) ==
    Word((IF prev = NoWord THEN Gap(offset) ELSE Rest(Width - offset, prev.data)) \o First(Width - offset, data),
         Len(data) <= Width - offset)

LeftShift(from, to, offset) ==
    \/ /\ q[from] # <<>> /\ ~reg[from].last
       /\ LET word == Head(q[from])
              sent == LeftShifted(reg[from], word.data, offset)
          IN /\ q' = Move(from, to, sent)
             /\ reg' = [reg EXCEPT ![from] = IF sent.last THEN NoWord ELSE word]
    \/ /\ reg[from].last
       /\ q' = [q EXCEPT ![to] = Append(@, [LeftShifted(reg[from], <<>>, offset) EXCEPT !.last = TRUE])]
       /\ reg' = [reg EXCEPT ![from] = NoWord]

=============================================================================
