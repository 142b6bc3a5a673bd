--------------------------- MODULE RingArithmetic ---------------------------
(***************************************************************************)
(* The shifts and masks that turn a sequence into a slot and a flag, which  *)
(* the other modules write as remainder and quotient, on words of Width     *)
(* bits.  The ring takes any size: its assertion is commented out.          *)
(***************************************************************************)
EXTENDS Integers, Bitwise

CONSTANT Width  (* bits of a word: 64 in the code                           *)

ASSUME WidthAssumption == Width \in Nat \ {0, 1}

Words == 0 .. 2 ^ Width - 1

(* Sequences and sizes are the words whose sign bit is clear.               *)
Sizes == 1 .. 2 ^ (Width - 1) - 1
Sequences == 0 .. 2 ^ (Width - 1) - 1

(* One shift too many is counted.                                           *)
Log2Mutated(n) ==
  LET r[m \in Words] == IF m = 0 THEN 0 ELSE 1 + r[shiftR(m, 1)] IN r[n]

Log2(n) ==
  LET r[m \in Words] == IF shiftR(m, 1) = 0 THEN 0 ELSE 1 + r[shiftR(m, 1)] IN r[n]

(* The mask is the size itself.                                             *)
IndexMutated(s, size) == s & size

(* RingBuffer::operator[], and the slot of a flag.                          *)
Index(s, size) == s & (size - 1)

AvailableFlag(s, size) == shiftR(s, Log2(size))

(* "size & (~size + 1)": the lowest bit of the size.                        *)
Asserted(size) == size > 0 /\ size & (2 ^ Width - size) = size

-----------------------------------------------------------------------------
(* Sequences less than a ring apart have slots of their own.                *)
SlotsDistinct(size) ==
  \A s, t \in Sequences :
    s < t /\ t - s < size => Index(s, size) # Index(t, size)

(* Slot and flag are remainder and quotient.                                *)
FlagsExact(size) ==
  \A s \in Sequences :
    /\ Index(s, size) = s % size
    /\ AvailableFlag(s, size) = s \div size
=============================================================================
