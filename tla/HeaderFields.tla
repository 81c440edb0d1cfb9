---------------------------- MODULE HeaderFields -----------------------------
(***************************************************************************)
(* FieldAccessor of src/packet/utils/field.rs on the viewers of            *)
(* HeaderLayouts: fields of a header are set one after the other, and each *)
(* is read back.  A header and an integer are the sets of their one bits;  *)
(* bit 0 of a header is the first bit on the wire.                         *)
(***************************************************************************)
EXTENDS HeaderLayouts

CONSTANTS
  Viewers,     \* the viewers checked; the empty name stands for no header
  MaxSets      \* how many fields are set

\* A field that is a number of as many bits as its mask, and one that is flags that
\* keep their place: it has no shift, and its mask leaves out the lowest bit.
IsNumber(f) == 0 \in f.mask \/ f.shift # 0

\* The mask is part of the integer, and what it lets through is part of the target.
IsFieldSpec(f) ==
  /\ {f.first, f.past, f.width, f.shift} \subseteq Nat /\ f.target \in Nat \ {0}
  /\ f.mask \subseteq 0 .. f.width - 1
  /\ IF IsNumber(f)
     THEN /\ f.mask = f.shift .. f.shift + Cardinality(f.mask) - 1
          /\ Cardinality(f.mask) \in 0 .. f.target
     ELSE f.mask \subseteq 0 .. f.target - 1

\* Where in the header the lowest bit of a field's integer is, and the field's own bits.
LastBit(f) == 8 * f.first + f.width - 1
Place(f) == {LastBit(f) - b : b \in f.mask}

\* The field_specs and the FIELD_ ranges of the source: two fields share no bit, unless
\* one is meant to show the other.
ASSUME HeaderFieldsAssumption ==
  /\ Viewers \subseteq DOMAIN Layouts \cup {""} /\ MaxSets \in Nat
  /\ \A v \in Viewers \ {""} : \A name \in DOMAIN Layouts[v] :
       /\ IsFieldSpec(Layouts[v][name])
       /\ \A other \in DOMAIN Layouts[v] \ {name} :
            {name, other} \notin Overlays => Place(Layouts[v][name]) \cap Place(Layouts[v][other]) = {}

VARIABLES
  viewer,
  header,      \* the one bits of the header
  written,     \* the value each field was last set to, until an overlay of it was
  sets

fieldVars == << viewer, header, written, sets >>

Layout == Layouts[viewer]
HeaderBits(layout) == UNION {0 .. 8 * layout[name].past - 1 : name \in DOMAIN layout}

-----------------------------------------------------------------------------
\* read_unaligned and from_be: the integer of `width` bits at the first byte,
\* whatever the length of the slice.
Read(h, f) == {LastBit(f) - k : k \in {j \in h : 8 * f.first <= j /\ j <= LastBit(f)}}

\* to_be and write_unaligned.
Write(h, f, bits) ==
  {j \in h : j < 8 * f.first \/ j > LastBit(f)} \cup {LastBit(f) - b : b \in bits}

Shl(bits, s, width) == {b + s : b \in {c \in bits : c + s < width}}
Shr(bits, s) == {b - s : b \in {c \in bits : c >= s}}

Raw(h, f) == Shr(Read(h, f) \cap f.mask, f.shift)

\* from_underlay: a narrower target keeps the low bits.
Get(h, f) == Raw(h, f) \cap (0 .. f.target - 1)

\* Mutant: the shifted value is not masked.
PutUnmasked(h, f, value) ==
  Write(h, f, (Read(h, f) \ f.mask) \cup Shl(value, f.shift, f.width))

Put(h, f, value) ==
  Write(h, f, (Read(h, f) \ f.mask) \cup (Shl(value, f.shift, f.width) \cap f.mask))

-----------------------------------------------------------------------------
\* A header full of zeros or of ones.
FieldsInit ==
  /\ viewer \in Viewers
  /\ header \in IF viewer = "" THEN {{}} ELSE {{}, HeaderBits(Layout)}
  /\ written = << >> /\ sets = 0

\* Values of a field: zero, one, and every bit of the target set.
Values(f) == {{}, {0}, 0 .. f.target - 1}

Settable == DOMAIN Layout \ (IF viewer \in DOMAIN ReadOnly THEN ReadOnly[viewer] ELSE {})

Set(name, value) ==
  /\ viewer # "" /\ sets < MaxSets /\ name \in Settable
  /\ header' = Put(header, Layout[name], value)
  /\ written' = [n \in {name} \cup {m \in DOMAIN written : {m, name} \notin Overlays} |->
                   IF n = name THEN value ELSE written[n]]
  /\ sets' = sets + 1 /\ UNCHANGED viewer

FieldsNext ==
  viewer # "" /\ \E name \in DOMAIN Layout : \E value \in Values(Layout[name]) : Set(name, value)

FieldsSpec == FieldsInit /\ [][FieldsNext]_fieldVars

-----------------------------------------------------------------------------
\* What a field of this size makes of a value.
Holds(f, value) ==
  IF IsNumber(f)
  THEN value \cap (0 .. Cardinality(f.mask) - 1)
  ELSE value \cap f.mask

\* A field reads as the value it was last set to, cut to the field's size,
\* whatever the header held before and whichever other fields were set since:
\* no mask, shift or byte range of two fields gets in the other's way.
FieldsKeepTheirValues ==
  \A name \in DOMAIN written :
    Get(header, Layout[name]) = Holds(Layout[name], written[name])

=============================================================================
