----------------------------- MODULE HidParser -----------------------------
(***************************************************************************)
(* The HID report descriptor parser (src/src/ups/hid_parser.c): the fields *)
(* a descriptor declares, found by the collections they lie in, and how    *)
(* the value of a field is taken out of its report.                        *)
(*                                                                         *)
(* A descriptor is a sequence of items, a record of a tag and a value; how *)
(* an item is laid out in bytes is left out, and so are the tags the code  *)
(* ignores.  A usage stands for its number, a path element for a page and  *)
(* a usage.  A report is the number its bits are, the lowest first.        *)
(***************************************************************************)
EXTENDS Integers, Sequences, FiniteSets, SequencesExt, FiniteSetsExt

CONSTANTS
  BYTE,            \* bits in a byte
  HID_MAX_PATH, HID_MAX_FIELDS,
  UsageQueue,      \* the usages the queue has room for
  Ids              \* the report identifiers

ASSUME ParserAssumption ==
  /\ {BYTE, HID_MAX_PATH, HID_MAX_FIELDS, UsageQueue} \subseteq Nat \ {0}
  /\ Ids \subseteq Nat /\ 0 \in Ids

Types == {"input", "output", "feature"}
Globals == {"page", "min", "unit", "exp", "size", "count", "id"}
Slots == Ids \X Types   \* a report has a place for each type

\* What an item may hold.  The page, the usage and the unit are only copied.
IsItem(item) ==
  /\ item.tag \in Globals \cup Types \cup {"usage", "collection", "end"}
  /\ item.tag \in {"size", "count"} => item.val \in Nat
  /\ item.tag \in {"min", "exp"} => item.val \in Int
  /\ item.tag = "id" => item.val \in Ids

\* What the parser knows before the first item
Before ==
  [g \in Globals |-> CASE g = "page" -> "none" [] g = "unit" -> <<0, 0>> [] OTHER -> 0]
Start ==
  [global |-> Before, queue |-> <<>>, path |-> <<>>,
   offsets |-> [slot \in Slots |-> 0], fields |-> <<>>]

\* A faulty EndCollection, for the checks: the collection stays open.
EndCollectionLeftOpen(s) == s

\* End Collection
EndCollection(s) == [s EXCEPT !.path = IF @ = <<>> THEN @ ELSE Front(@)]

Collection(s) ==
  LET usage == IF s.queue = <<>> THEN "none" ELSE Head(s.queue)
      in == Append(s.path, <<s.global["page"], usage>>)
  IN [s EXCEPT !.path = IF Len(@) < HID_MAX_PATH THEN in ELSE @,
               !.queue = <<>>]

\* The usage of the k-th field: the last one queued stands for the rest.
UsageAt(queue, k) ==
  IF queue = <<>> THEN "none"
  ELSE IF k <= Len(queue) THEN queue[k] ELSE Last(queue)

\* A field with the global items in force
Field(global, path, usage, type, offset) ==
  [path |-> path, usage |-> usage, type |-> type, id |-> global["id"],
   size |-> global["size"], offset |-> offset, min |-> global["min"],
   unit |-> global["unit"], exp |-> global["exp"]]

DeclaredField(s, type, k) ==
  LET own == <<s.global["page"], UsageAt(s.queue, k)>> IN
  Field(s.global,
        IF Len(s.path) < HID_MAX_PATH THEN Append(s.path, own) ELSE s.path,
        own, type,
        s.offsets[<<s.global["id"], type>>] + (k - 1) * s.global["size"])

\* Input, Output and Feature declare as many fields as Report Count says, as
\* long as the table has room.
Main(s, type) ==
  LET room == HID_MAX_FIELDS - Len(s.fields)
      n == IF s.global["count"] < room THEN s.global["count"] ELSE room
  IN [s EXCEPT !.fields = @ \o [k \in 1..n |-> DeclaredField(s, type, k)],
               !.offsets[<<s.global["id"], type>>] = @ + n * s.global["size"],
               !.queue = <<>>]

Item(s, item) ==
  CASE item.tag \in Globals -> [s EXCEPT !.global[item.tag] = item.val]
    [] item.tag = "usage" ->
         [s EXCEPT !.queue = IF Len(@) < UsageQueue THEN Append(@, item.val)
                             ELSE @]
    [] item.tag = "collection" -> Collection(s)
    [] item.tag = "end" -> EndCollection(s)
    [] item.tag \in Types -> Main(s, item.tag)

\* hid_parse_descriptor: what the parser knows after each item, and the table
After(desc) ==
  LET after[i \in 0..Len(desc)] ==
        IF i = 0 THEN Start ELSE Item(after[i - 1], desc[i])
  IN after
Parse(desc) == After(desc)[Len(desc)].fields

NoField == [path |-> <<>>]

\* hid_find_field: the first feature whose path ends in the one given
Find(fields, path) ==
  LET Matches(f) == f.type = "feature" /\ IsSuffix(path, f.path)
      i == SelectInSeq(fields, Matches)
  IN IF i = 0 THEN NoField ELSE fields[i]

-----------------------------------------------------------------------------
(* Values *)

\* Two to the power of n
Pow2[n \in Nat] == IF n = 0 THEN 1 ELSE 2 * Pow2[n - 1]

Bits(report, offset, size) == (report \div Pow2[offset]) % Pow2[size]

\* The number n bits are in two's complement
TwosComplement(v, n) ==
  IF n > 0 /\ v >= Pow2[n - 1] THEN v - Pow2[n] ELSE v

\* The sizes read as whole bytes
Fast(f) == f.offset % BYTE = 0 /\ f.size \in {BYTE, 2 * BYTE, 4 * BYTE}

\* A faulty Extract, for the checks: no value is negative.
ExtractUnsigned(f, report) == Bits(report, f.offset, f.size)

\* hid_field_read_raw, the report being read: a field read as whole bytes
\* gets no sign but that of an int32_t.
Extract(f, report) ==
  LET v == Bits(report, f.offset, f.size) IN
  IF (f.min < 0 /\ ~Fast(f)) \/ f.size = 4 * BYTE
  THEN TwosComplement(v, f.size) ELSE v

\* decode_unit_exponent, and the nibbles of a unit
Nibble(n) == IF n % 16 > 7 THEN (n % 16) - 16 ELSE n % 16

\* hid_field_read_scaled: the power of ten that goes with a raw value, for a
\* unit of a length and a mass exponent
Scale(f) ==
  IF f.unit = <<0, 0>> THEN 0
  ELSE Nibble(f.exp) - 2 * Nibble(f.unit[1]) - 3 * Nibble(f.unit[2])

-----------------------------------------------------------------------------
(* What a descriptor declares, as the HID specification has it: every item *)
(* looked at from where it stands, without a running state.                *)

\* The k-th of a set of positions
Nth(S, k) == CHOOSE j \in S : Cardinality({m \in S : m <= j}) = k

Tagged(desc, from, to, tags) == {j \in from..to : desc[j].tag \in tags}
MainTags == Types \cup {"collection", "end"}

\* The value of a global item in force at i
LastGlobal(desc, i, tag) ==
  LET S == Tagged(desc, 1, i - 1, {tag}) IN
  IF S = {} THEN Before[tag] ELSE desc[CHOOSE j \in S : \A m \in S : m <= j].val
InForce(desc, i) == [g \in Globals |-> LastGlobal(desc, i, g)]

\* The usages that belong to the main item at i: no other stands between.
OwnUsages(desc, i) ==
  {j \in Tagged(desc, 1, i - 1, {"usage"}) : Tagged(desc, j, i - 1, MainTags) = {}}

DeclaredUsage(desc, i, k) ==
  LET own == OwnUsages(desc, i)
      n == Cardinality(own)
  IN <<LastGlobal(desc, i, "page"),
       IF own = {} THEN "none" ELSE desc[Nth(own, IF k <= n THEN k ELSE n)].val>>

\* The collections that are open at i: from where it was opened to i more
\* were opened than ended, all the way.
Excess(desc, from, to) ==
  Cardinality(Tagged(desc, from, to, {"collection"}))
    - Cardinality(Tagged(desc, from, to, {"end"}))
Enclosing(desc, i) ==
  {j \in Tagged(desc, 1, i - 1, {"collection"}) :
     \A m \in j..(i - 1) : Excess(desc, j, m) > 0}

PathAt(desc, i, usage) ==
  LET in == Enclosing(desc, i) IN
  [n \in 1..(Cardinality(in) + 1) |->
     IF n <= Cardinality(in) THEN DeclaredUsage(desc, Nth(in, n), 1) ELSE usage]

\* The bits of the report that the items up to each take, for a slot
SlotAt(desc, i) == <<LastGlobal(desc, i, "id"), desc[i].tag>>
Taken(desc, slot) ==
  LET taken[i \in 0..Len(desc)] ==
        IF i = 0 THEN 0
        ELSE taken[i - 1] + IF SlotAt(desc, i) = slot
                            THEN LastGlobal(desc, i, "count") * LastGlobal(desc, i, "size")
                            ELSE 0
  IN taken

\* The fields the item at i declares
Declares(desc, i) ==
  LET before == Taken(desc, SlotAt(desc, i))[i - 1]
      Usage(k) == DeclaredUsage(desc, i, k)
  IN IF desc[i].tag \notin Types THEN <<>>
     ELSE [k \in 1..LastGlobal(desc, i, "count") |->
             Field(InForce(desc, i), PathAt(desc, i, Usage(k)), Usage(k), desc[i].tag,
                   before + (k - 1) * LastGlobal(desc, i, "size"))]

\* Those of the items up to each, and of all
DeclaredUpTo(desc) ==
  LET upto[i \in 0..Len(desc)] ==
        IF i = 0 THEN <<>> ELSE upto[i - 1] \o Declares(desc, i)
  IN upto
Declared(desc) == DeclaredUpTo(desc)[Len(desc)]

\* The descriptors the parser's tables have room for, whose usages all belong
\* to a main item that is not an End Collection
Fits(desc) ==
  /\ Len(Declared(desc)) <= HID_MAX_FIELDS
  /\ \A i \in 1..Len(desc) :
       /\ Cardinality(OwnUsages(desc, i)) <= UsageQueue
       /\ Cardinality(Enclosing(desc, i)) < HID_MAX_PATH
       /\ desc[i].tag = "end" => OwnUsages(desc, i) = {} /\ Enclosing(desc, i) # {}

\* The value of a field, signed when its logical minimum is negative
Value(f, report) ==
  LET v == Bits(report, f.offset, f.size) IN
  IF f.min < 0 THEN TwosComplement(v, f.size) ELSE v
=============================================================================
