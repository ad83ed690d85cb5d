-------------------------- MODULE ConfigRegsProofs ---------------------------
(***************************************************************************)
(* Proofs about ConfigRegs, for any unit of either family with any outlet  *)
(* groups, any clients, values and bounds: an answer is honest, a write    *)
(* touches no other register, and two pages do not contradict each other.  *)
(***************************************************************************)
EXTENDS ConfigRegs, SequenceTheorems, TLAPS

-----------------------------------------------------------------------------
(* The registers of the unit, by the table they come from: their places.    *)

\* Where the registers of each table are.
LEMMA UnitPlaces ==
  /\ \A r \in SmtUnit : /\ r.count = 1
                        /\ r.addr \in {591, 592, 595, 1024, 1026, 1027, 1028}
  /\ \A r \in SrtUnit : /\ r.count = 1
                        /\ r.addr \in {591, 592, 593, 595, 1024, 1026, 1027}
BY DEF SmtUnit, SrtUnit, Open, Scalar, Choice, Register, Unit

\* No two settings of the unit share an address.
LEMMA UnitApart ==
  /\ \A q, r \in SmtUnit : q.addr = r.addr => q = r
  /\ \A q, r \in SrtUnit : q.addr = r.addr => q = r
BY DEF SmtUnit, SrtUnit, Open, Scalar, Choice, Register, Unit

\* A name is a string of eight registers.
LEMMA NamePlaces ==
  \A r \in SmtNames : \E g \in Groups :
    /\ r = Open(Text(<<g, "name">>, NameAt[g], 8, "config"))
    /\ r.addr = NameAt[g] /\ r.count = 8 /\ r.type = "string"
BY DEF SmtNames, Open, Text, Register

\* The status block lies below address 27 and holds diagnostics only.
LEMMA StatusPlaces ==
  \A r \in SmtStatus : /\ r.addr \in 0..26 /\ r.count \in {1, 2}
                       /\ r.addr + r.count <= 27 /\ r.category = "diagnostic"
BY DEF SmtStatus, Flag, Register, Unit, OutletStatus

\* What the constructors make.
IsWord(r, what, addr, n, category) ==
  /\ r.name = Unit(what) /\ r.addr = addr /\ r.count = n /\ r.type # "string"
  /\ r.category = category
  /\ {"name", "addr", "count", "type", "category"} \subseteq DOMAIN r

\* What the rows of the dynamic block must be: its words with their places.
DynamicRows ==
  {<<"battery_runtime", 128, 2>>, <<"battery_charge_pct", 130, 1>>,
   <<"battery_voltage_pos", 131, 1>>, <<"battery_voltage_neg", 132, 1>>,
   <<"battery_internal_date", 133, 1>>, <<"battery_temperature", 135, 1>>,
   <<"output_load_pct", 136, 1>>, <<"output_apparent_power_pct", 138, 1>>,
   <<"output_current", 140, 1>>, <<"output_voltage", 142, 1>>,
   <<"output_frequency", 144, 1>>, <<"output_energy", 145, 2>>,
   <<"bypass_input_status", 147, 1>>, <<"bypass_voltage", 148, 1>>,
   <<"bypass_frequency", 149, 1>>, <<"input_status", 150, 1>>,
   <<"input_voltage", 151, 1>>, <<"efficiency", 154, 1>>}

\* A register of the dynamic block is a row of the table above.
LEMMA DynamicPlaces ==
  \A r \in SmtDynamic :
    /\ <<r.name[2], r.addr, r.count>> \in DynamicRows
    /\ IsWord(r, r.name[2], r.addr, r.count, "measurement")
<1> SUFFICES ASSUME NEW r \in SmtDynamic
             PROVE  /\ <<r.name[2], r.addr, r.count>> \in DynamicRows
                    /\ IsWord(r, r.name[2], r.addr, r.count, "measurement")
  OBVIOUS
<1>1. PICK row \in DynamicRows :
       \/ r = Word(row[1], row[2], "measurement") /\ row[3] = 1
       \/ r = MayLack(Word(row[1], row[2], "measurement")) /\ row[3] = 1
       \/ r = Long(row[1], row[2], "measurement") /\ row[3] = 2
       \/ r = Flag(row[1], row[2], 1, "measurement") /\ row[3] = 1
       \/ /\ r = [Flag(row[1], row[2], 1, "measurement") EXCEPT !.sentinel = <<0>>]
          /\ row[3] = 1
  BY DEF SmtDynamic, DynamicRows
<1>2. row = <<row[1], row[2], row[3]>>
  BY DEF DynamicRows
<1>3. IsWord(r, row[1], row[2], row[3], "measurement")
  <2> DEFINE K == "measurement"
  <2>1. CASE r = Word(row[1], row[2], K) /\ row[3] = 1
    BY <2>1 DEF Word, Register, IsWord
  <2>2. CASE r = MayLack(Word(row[1], row[2], K)) /\ row[3] = 1
    BY <2>2 DEF Word, MayLack, Register, IsWord
  <2>3. CASE r = Long(row[1], row[2], K) /\ row[3] = 2
    BY <2>3 DEF Long, Register, IsWord
  <2>4. CASE r = Flag(row[1], row[2], 1, K) /\ row[3] = 1
    BY <2>4 DEF Flag, Register, IsWord
  <2>5. CASE r = [Flag(row[1], row[2], 1, K) EXCEPT !.sentinel = <<0>>] /\ row[3] = 1
    BY <2>5 DEF Flag, Register, IsWord
  <2> QED
    BY <1>1, <2>1, <2>2, <2>3, <2>4, <2>5
<1>4. /\ r.name[2] = row[1] /\ r.addr = row[2] /\ r.count = row[3]
  BY <1>3 DEF IsWord, Unit
<1> QED
  BY <1>2, <1>3, <1>4

\* The inventory is one block, of strings and single words.
LEMMA InventoryPlaces ==
  \A r \in SmtInventory : /\ r.addr \in 516..590 /\ r.count \in {1, 8, 16}
                          /\ r.addr + r.count <= 591 /\ r.category = "identity"
BY DEF SmtInventory, Text, Word, Flag, Register, Unit

-----------------------------------------------------------------------------
(* The settings of an outlet group, with their addresses.                   *)

OutletGroups == Groups \ {"unit"}
DelayAt ==
  {<<"turn_off_delay", "mog", 1029>>, <<"turn_off_delay", "sog0", 1034>>,
   <<"turn_off_delay", "sog1", 1039>>, <<"turn_off_delay", "sog2", 1044>>,
   <<"turn_on_delay", "mog", 1030>>, <<"turn_on_delay", "sog0", 1035>>,
   <<"turn_on_delay", "sog1", 1040>>, <<"turn_on_delay", "sog2", 1045>>,
   <<"min_return_runtime", "mog", 1033>>, <<"min_return_runtime", "sog0", 1038>>,
   <<"min_return_runtime", "sog1", 1043>>, <<"min_return_runtime", "sog2", 1048>>}
ShedAt ==
  {<<"loadshed_config", "mog", 1054>>, <<"loadshed_config", "sog0", 1056>>,
   <<"loadshed_config", "sog1", 1058>>, <<"loadshed_config", "sog2", 1060>>,
   <<"loadshed_runtime", "mog", 1072>>, <<"loadshed_runtime", "sog0", 1064>>,
   <<"loadshed_runtime", "sog1", 1065>>, <<"loadshed_runtime", "sog2", 1066>>,
   <<"loadshed_time_on_bat", "mog", 1073>>, <<"loadshed_time_on_bat", "sog0", 1068>>,
   <<"loadshed_time_on_bat", "sog1", 1069>>, <<"loadshed_time_on_bat", "sog2", 1070>>}

\* The outlet groups, one by one.
LEMMA OutletGroupsAre == OutletGroups = {"mog", "sog0", "sog1", "sog2"}
BY DEF OutletGroups, Groups, Outlets

\* The tables above are those of the module.
LEMMA DelayTable ==
  ASSUME NEW what \in DOMAIN Delays, NEW g \in OutletGroups
  PROVE  <<what, g, Delays[what][g]>> \in DelayAt
BY OutletGroupsAre DEF Delays, DelayAt

LEMMA ShedTable ==
  ASSUME NEW what \in DOMAIN LoadShed, NEW g \in OutletGroups
  PROVE  <<what, g, LoadShed[what][g]>> \in ShedAt
BY OutletGroupsAre DEF LoadShed, ShedAt

\* No two settings of outlet groups share an address.
LEMMA TablesApart ==
  \A x, y \in DelayAt \cup ShedAt : x[3] = y[3] => x = y
BY DEF DelayAt, ShedAt

\* A delay is what its constructor makes of a row.
LEMMA DelayPlaces ==
  ASSUME NEW g \in OutletGroups, NEW r \in DelaysOf(g)
  PROVE  /\ r.name = <<g, r.name[2]>> /\ r.count = 1 /\ r.category = "config"
         /\ r.type = "scalar"
         /\ <<r.name[2], g, r.addr>> \in DelayAt
         /\ r = Open(Scalar(<<g, r.name[2]>>, r.addr, 0, 32767))
<1>1. PICK what \in DOMAIN Delays :
        r = Open(Scalar(<<g, what>>, Delays[what][g], 0, 32767))
  BY DEF DelaysOf
<1>2. /\ r.name = <<g, what>> /\ r.count = 1 /\ r.category = "config"
      /\ r.type = "scalar" /\ r.addr = Delays[what][g]
  BY <1>1 DEF Open, Scalar, Register
<1>3. r.name[2] = what
  BY <1>2
<1> QED
  BY <1>1, <1>2, <1>3, DelayTable

\* So is a load-shedding setting, which only an SRT lets anybody write.
LEMMA ShedPlaces ==
  ASSUME NEW g \in OutletGroups, NEW r \in LoadShedOf(g)
  PROVE  /\ r.name = <<g, r.name[2]>> /\ r.count = 1 /\ r.category = "config"
         /\ r.type = "scalar" /\ ~r.writable
         /\ <<r.name[2], g, r.addr>> \in ShedAt
         /\ r = Scalar(<<g, r.name[2]>>, r.addr, 0, ShedMax(r.name[2]))
<1>1. PICK what \in DOMAIN LoadShed :
        r = Scalar(<<g, what>>, LoadShed[what][g], 0, ShedMax(what))
  BY DEF LoadShedOf
<1>2. /\ r.name = <<g, what>> /\ r.count = 1 /\ r.category = "config"
      /\ r.type = "scalar" /\ r.addr = LoadShed[what][g] /\ ~r.writable
  BY <1>1 DEF Scalar, Register
<1>3. r.name[2] = what
  BY <1>2
<1> QED
  BY <1>1, <1>2, <1>3, ShedTable

\* To make it writable changes nothing else of it.
LEMMA OpenShed ==
  ASSUME NEW g \in OutletGroups, NEW r \in LoadShedOf(g)
  PROVE  /\ Open(r).name = r.name /\ Open(r).count = 1 /\ Open(r).category = "config"
         /\ Open(r).type = "scalar" /\ Open(r).addr = r.addr
<1>1. PICK what \in DOMAIN LoadShed :
        r = Scalar(<<g, what>>, LoadShed[what][g], 0, ShedMax(what))
  BY DEF LoadShedOf
<1> QED
  BY <1>1, ShedPlaces DEF Open, Scalar, Register

\* The countdowns are in the dynamic block.
LEMMA CountdownPlaces ==
  ASSUME NEW g \in OutletGroups, NEW r \in SmtCountdowns(g)
  PROVE  /\ r.addr \in 155..170 /\ r.count \in {1, 2} /\ r.addr + r.count <= 171
         /\ r.category = "measurement" /\ r.type = "scalar"
         /\ r.name[2] \in {"off_countdown", "on_countdown", "stayoff_countdown"}
         /\ r.name[1] = g
<1>1. Countdowns[g] \in {155, 159, 163, 167}
  BY OutletGroupsAre DEF Countdowns
<1> QED
  BY <1>1 DEF SmtCountdowns, MayLack, Register

\* No two names share an address.
LEMMA NameTable ==
  /\ \A g \in Groups : NameAt[g] \in {596, 604, 612, 620, 628}
  /\ \A g, h \in Groups : NameAt[g] = NameAt[h] => g = h
BY DEF Groups, Outlets, NameAt

-----------------------------------------------------------------------------
(* Kinds of registers, and that no two share a word one of them is set by.  *)

\* In one of the blocks that are read at once; nothing there is a setting.
InBlock(r) ==
  /\ r.addr \in Nat /\ r.count \in Nat \ {0} /\ r.category # "config"
  /\ \/ r.addr + r.count <= 171
     \/ r.addr >= 516 /\ r.addr + r.count <= 591

\* What is read in a block is in it.
LEMMA BlockPlaces ==
  /\ \A r \in SmtStatus \cup SmtDynamic \cup SmtInventory : InBlock(r)
  /\ \A g \in OutletGroups : \A r \in SmtCountdowns(g) : InBlock(r)
  /\ \A r \in SrtDynamic \cup SrtInventory : InBlock(r)
<1>1. \A r \in SmtStatus : InBlock(r)
  BY StatusPlaces DEF InBlock
<1>2. \A r \in SmtDynamic : InBlock(r)
  BY DynamicPlaces DEF DynamicRows, InBlock, IsWord
<1>3. \A r \in SmtInventory : InBlock(r)
  BY InventoryPlaces DEF InBlock
<1>4. \A g \in OutletGroups : \A r \in SmtCountdowns(g) : InBlock(r)
  BY CountdownPlaces DEF InBlock
<1>5. ASSUME NEW r \in SrtDynamic PROVE InBlock(r)
  <2>1. ASSUME NEW x \in SmtDynamic PROVE InBlock([x EXCEPT !.sentinel = <<>>])
    <3>1. {"addr", "count", "category"} \subseteq DOMAIN x
      BY DynamicPlaces DEF IsWord
    <3> DEFINE y == [x EXCEPT !.sentinel = <<>>]
    <3>2. y.addr = x.addr /\ y.count = x.count /\ y.category = x.category
      BY <3>1
    <3> HIDE DEF y
    <3>3. InBlock(y)
      BY <1>2, <3>2 DEF InBlock
    <3> QED
      BY <3>3 DEF y
  <2>2. CASE r \in {MayLack(Word("shutdown_timer", 155, "measurement")),
                    MayLack(Word("start_timer", 156, "measurement")),
                    MayLack(Long("reboot_timer", 157, "measurement"))}
    BY <2>2 DEF MayLack, Word, Long, Register, InBlock
  <2> QED
    BY <1>2, <2>1, <2>2 DEF SrtDynamic
<1>6. \A r \in SrtInventory : InBlock(r)
  <2>1. InBlock(Text(Unit("external_battery_sku"), 580, 8, "identity"))
    BY DEF Text, Register, InBlock
  <2> QED
    BY <1>3, <2>1 DEF SrtInventory
<1> QED
  BY <1>1, <1>2, <1>3, <1>4, <1>5, <1>6

\* A setting has a word, or is a name of eight.
UnitArea == {591, 592, 593, 595} \cup 1024..1028
UnitOf(fam) == IF fam = "smt" THEN SmtUnit ELSE SrtUnit
OutletOf(fam, g) == IF fam = "smt" THEN SmtOutlet(g) ELSE SrtOutlet(g)

\* Every register is in a block, a setting of the unit or of an outlet group,
\* or a name.
LEMMA Sorted ==
  ASSUME NEW fam \in Families, NEW outs \in SUBSET Outlets,
         NEW r \in Present(fam, outs)
  PROVE  \/ InBlock(r)
         \/ r \in UnitOf(fam)
         \/ r \in SmtNames
         \/ \E g \in OutletGroups : r \in OutletOf(fam, g)
<1>1. CASE fam = "smt"
  BY <1>1, BlockPlaces DEF Present, SmtRegisters, OutletOf, OutletGroups, UnitOf
<1>2. CASE fam = "srt"
  <2>1. {"mog", "sog0", "sog1"} \subseteq OutletGroups
    BY OutletGroupsAre
  <2> QED
    BY <1>2, <2>1, BlockPlaces
       DEF Present, SrtRegisters, OutletOf, SrtStatus, SrtNames, UnitOf
<1> QED
  BY <1>1, <1>2 DEF Families

\* What the constructors of an outlet group's settings make of a name and an
\* address.
Made(fam, name, addr) ==
  IF <<name[2], name[1], addr>> \in DelayAt THEN Open(Scalar(name, addr, 0, 32767))
  ELSE IF fam = "smt" THEN Scalar(name, addr, 0, ShedMax(name[2]))
  ELSE Open(Scalar(name, addr, 0, ShedMax(name[2])))

\* A setting of an outlet group is determined by its name and address.
LEMMA OutletPlaces ==
  ASSUME NEW fam \in Families, NEW g \in OutletGroups, NEW r \in OutletOf(fam, g)
  PROVE  /\ r.count = 1 /\ r.addr \in 1029..1073
         /\ r.name = <<g, r.name[2]>>
         /\ <<r.name[2], g, r.addr>> \in DelayAt \cup ShedAt
         /\ r = Made(fam, r.name, r.addr)
<1> DEFINE at == <<r.name[2], g, r.addr>>
<1>1. DelayAt \cap ShedAt = {}
  BY DEF DelayAt, ShedAt
<1>2. SUFFICES /\ r.count = 1 /\ r.name = <<g, r.name[2]>>
               /\ at \in DelayAt \cup ShedAt
               /\ r = IF at \in DelayAt THEN Open(Scalar(r.name, r.addr, 0, 32767))
                      ELSE IF fam = "smt"
                           THEN Scalar(r.name, r.addr, 0, ShedMax(r.name[2]))
                           ELSE Open(Scalar(r.name, r.addr, 0, ShedMax(r.name[2])))
  <2>1. \A x \in DelayAt \cup ShedAt : x[3] \in 1029..1073
    BY DEF DelayAt, ShedAt
  <2>2. at[3] \in 1029..1073
    BY <1>2, <2>1
  <2>3. <<r.name[2], r.name[1], r.addr>> = at
    BY <1>2
  <2>4. r = Made(fam, r.name, r.addr)
    BY <1>2, <2>3 DEF Made
  <2> QED
    BY <1>2, <2>2, <2>4
<1>3. CASE r \in DelaysOf(g)
  <2>1. /\ r.name = <<g, r.name[2]>> /\ r.count = 1 /\ at \in DelayAt
        /\ r = Open(Scalar(<<g, r.name[2]>>, r.addr, 0, 32767))
    BY <1>3, DelayPlaces
  <2>2. Open(Scalar(<<g, r.name[2]>>, r.addr, 0, 32767))
          = Open(Scalar(r.name, r.addr, 0, 32767))
    BY <2>1
  <2> QED
    BY <2>1, <2>2
<1>4. CASE fam = "smt" /\ r \in LoadShedOf(g)
  <2>1. /\ r.name = <<g, r.name[2]>> /\ r.count = 1 /\ at \in ShedAt
        /\ r = Scalar(<<g, r.name[2]>>, r.addr, 0, ShedMax(r.name[2]))
    BY <1>4, ShedPlaces
  <2>2. Scalar(<<g, r.name[2]>>, r.addr, 0, ShedMax(r.name[2]))
          = Scalar(r.name, r.addr, 0, ShedMax(r.name[2]))
    BY <2>1
  <2> QED
    BY <1>1, <1>4, <2>1, <2>2
<1>5. CASE fam # "smt" /\ \E x \in LoadShedOf(g) : r = Open(x)
  <2>1. PICK x \in LoadShedOf(g) : r = Open(x)
    BY <1>5
  <2>2. r.name = x.name /\ r.addr = x.addr /\ r.count = 1
    BY <2>1, OpenShed
  <2>3. /\ x.name = <<g, x.name[2]>> /\ <<x.name[2], g, x.addr>> \in ShedAt
        /\ x = Scalar(<<g, x.name[2]>>, x.addr, 0, ShedMax(x.name[2]))
    BY ShedPlaces
  <2>4. at \in ShedAt /\ at \notin DelayAt /\ r.name = <<g, r.name[2]>>
    BY <1>1, <2>2, <2>3
  <2>5. r = Open(Scalar(r.name, r.addr, 0, ShedMax(r.name[2])))
    BY <2>1, <2>2, <2>3
  <2> QED
    BY <1>5, <2>2, <2>4, <2>5
<1> QED
  BY <1>3, <1>4, <1>5 DEF OutletOf, SmtOutlet, SrtOutlet

NameArea == {596, 604, 612, 620, 628}

\* A name's place, and that it is its own.
LEMMA NameShape ==
  ASSUME NEW r \in SmtNames
  PROVE  r.count = 8 /\ r.type = "string" /\ r.addr \in NameArea
<1>1. PICK g \in Groups : r.addr = NameAt[g] /\ r.count = 8 /\ r.type = "string"
  BY NamePlaces
<1> QED
  BY <1>1, NameTable DEF NameArea

LEMMA NamesApart ==
  ASSUME NEW q \in SmtNames, NEW r \in SmtNames, q.addr = r.addr
  PROVE  q = r
<1>1. PICK g \in Groups : /\ q = Open(Text(<<g, "name">>, NameAt[g], 8, "config"))
                          /\ q.addr = NameAt[g]
  BY NamePlaces
<1>2. PICK h \in Groups : /\ r = Open(Text(<<h, "name">>, NameAt[h], 8, "config"))
                          /\ r.addr = NameAt[h]
  BY NamePlaces
<1>3. g = h
  BY <1>1, <1>2, NameTable
<1> QED
  BY <1>1, <1>2, <1>3

\* A setting of the unit has one word, which is its own.
LEMMA UnitShape ==
  ASSUME NEW fam \in Families, NEW r \in UnitOf(fam)
  PROVE  r.count = 1 /\ r.addr \in UnitArea
BY UnitPlaces DEF UnitArea, Families, UnitOf

LEMMA UnitsApart ==
  ASSUME NEW fam \in Families, NEW q \in UnitOf(fam), NEW r \in UnitOf(fam),
         q.addr = r.addr
  PROVE  q = r
BY UnitApart DEF Families, UnitOf

\* A setting of an outlet group has a word of its own.
LEMMA OutletsApart ==
  ASSUME NEW fam \in Families, NEW g \in OutletGroups, NEW h \in OutletGroups,
         NEW q \in OutletOf(fam, g), NEW r \in OutletOf(fam, h),
         q.addr = r.addr
  PROVE  q = r
<1> DEFINE x == <<q.name[2], g, q.addr>>
           y == <<r.name[2], h, r.addr>>
<1>1. /\ x \in DelayAt \cup ShedAt
      /\ q.name = <<g, q.name[2]>> /\ q = Made(fam, q.name, q.addr)
  BY OutletPlaces
<1>2. /\ y \in DelayAt \cup ShedAt
      /\ r.name = <<h, r.name[2]>> /\ r = Made(fam, r.name, r.addr)
  BY OutletPlaces
<1>3. x[3] = y[3]
  OBVIOUS
<1>4. x = y
  <2> HIDE DEF x, y
  <2> QED
    BY <1>1, <1>2, <1>3, TablesApart
<1>5. g = h /\ q.name[2] = r.name[2]
  BY <1>4
<1>6. q.name = r.name
  BY <1>1, <1>2, <1>5
<1> QED
  BY <1>1, <1>2, <1>6

-----------------------------------------------------------------------------
\* The kinds of registers, each with an area of its own.
IsUnit(fam, r) == r \in UnitOf(fam) /\ r.count = 1 /\ r.addr \in UnitArea
IsName(r) == r \in SmtNames /\ r.count = 8 /\ r.type = "string" /\ r.addr \in NameArea
IsOutlet(fam, r) ==
  /\ \E g \in OutletGroups : r \in OutletOf(fam, g)
  /\ r.count = 1 /\ r.addr \in 1029..1073

\* Every register is of one of the kinds.
LEMMA Kinds ==
  ASSUME NEW fam \in Families, NEW outs \in SUBSET Outlets,
         NEW r \in Present(fam, outs)
  PROVE  InBlock(r) \/ IsUnit(fam, r) \/ IsName(r) \/ IsOutlet(fam, r)
<1>1. r \in UnitOf(fam) => IsUnit(fam, r)
  BY UnitShape DEF IsUnit
<1>2. r \in SmtNames => IsName(r)
  BY NameShape DEF IsName
<1>3. ASSUME NEW g \in OutletGroups, r \in OutletOf(fam, g) PROVE IsOutlet(fam, r)
  <2>1. /\ r.count = 1 /\ r.addr \in 1029..1073
        /\ r.name = <<g, r.name[2]>>
        /\ <<r.name[2], g, r.addr>> \in DelayAt \cup ShedAt
        /\ r = Made(fam, r.name, r.addr)
    BY <1>3, OutletPlaces
  <2> QED
    BY <1>3, <2>1 DEF IsOutlet
<1> QED
  BY <1>1, <1>2, <1>3, Sorted

\* Every register that may be set has one word, or is a name.
LEMMA SettingShape ==
  ASSUME NEW fam \in Families, NEW outs \in SUBSET Outlets,
         NEW r \in Present(fam, outs), r.category = "config"
  PROVE  r.addr \in Nat /\ (r.count = 1 \/ r.type = "string")
<1>1. IsUnit(fam, r) \/ IsName(r) \/ IsOutlet(fam, r)
  BY Kinds DEF InBlock
<1> QED
  BY <1>1 DEF IsUnit, IsName, IsOutlet, UnitArea, NameArea

\* The word a setting is written to is no word of another register.
LEMMA SettingsApart ==
  ASSUME NEW fam \in Families, NEW outs \in SUBSET Outlets,
         NEW q \in Present(fam, outs), q.category = "config",
         NEW r \in Present(fam, outs), r # q,
         NEW i \in 1..r.count
  PROVE  r.addr + i - 1 # q.addr
<1>1. IsUnit(fam, q) \/ IsName(q) \/ IsOutlet(fam, q)
  BY Kinds DEF InBlock
<1>2. InBlock(r) \/ IsUnit(fam, r) \/ IsName(r) \/ IsOutlet(fam, r)
  BY Kinds
<1>3. q.addr \in UnitArea \cup NameArea \cup 1029..1073
  BY <1>1 DEF IsUnit, IsName, IsOutlet
<1>4. CASE InBlock(r)
  BY <1>3, <1>4 DEF InBlock, UnitArea, NameArea
<1>5. CASE IsUnit(fam, r)
  <2>1. r.addr + i - 1 = r.addr /\ r.addr \in UnitArea
    BY <1>5 DEF IsUnit, UnitArea
  <2>2. CASE IsUnit(fam, q)
    BY <1>5, <2>1, <2>2, UnitsApart DEF IsUnit
  <2>3. CASE IsName(q) \/ IsOutlet(fam, q)
    BY <2>1, <2>3 DEF IsName, IsOutlet, UnitArea, NameArea
  <2> QED
    BY <1>1, <2>2, <2>3
<1>6. CASE IsName(r)
  <2>1. r.addr + i - 1 \in r.addr..(r.addr + 7) /\ r.addr \in NameArea
    BY <1>6 DEF IsName, NameArea
  <2>2. CASE IsName(q)
    <3>1. q.addr # r.addr /\ q.addr \in NameArea
      BY <1>6, <2>2, NamesApart DEF IsName
    <3> QED
      BY <2>1, <3>1 DEF NameArea
  <2>3. CASE IsUnit(fam, q) \/ IsOutlet(fam, q)
    BY <2>1, <2>3 DEF IsUnit, IsOutlet, UnitArea, NameArea
  <2> QED
    BY <1>1, <2>2, <2>3
<1>7. CASE IsOutlet(fam, r)
  <2>1. r.addr + i - 1 = r.addr /\ r.addr \in 1029..1073
    BY <1>7 DEF IsOutlet
  <2>2. CASE IsOutlet(fam, q)
    BY <1>7, <2>1, <2>2, OutletsApart DEF IsOutlet
  <2>3. CASE IsUnit(fam, q) \/ IsName(q)
    BY <2>1, <2>3 DEF IsUnit, IsName, UnitArea, NameArea
  <2> QED
    BY <1>1, <2>2, <2>3
<1> QED
  BY <1>2, <1>4, <1>5, <1>6, <1>7

-----------------------------------------------------------------------------
(* Requests, and what the unit has held since they were made.               *)

\* The unit is one there is; a request is a request, for a setting of the unit.
UnitKnown ==
  /\ family \in Families /\ outlets \in SUBSET Outlets /\ tracked \in TrackedSets
Shaped(r) ==
  r = [reg |-> r.reg, value |-> r.value, ok |-> r.ok, readback |-> r.readback]
Handled == {"write", "readback", "record", "refresh"}
ReqShape ==
  /\ pc = [c \in Clients |-> pc[c]]
  /\ req = [c \in Clients |-> req[c]]
  /\ \A c \in Clients :
       /\ Shaped(req[c]) /\ req[c].value \in 0..(WORD - 1)
       /\ pc[c] \in Handled => req[c].reg \in Settings

\* What a request was told to be done has been in the unit since it was made.
Backed(c) ==
  /\ pc[c] = "readback" /\ req[c].ok => held[c]
  /\ pc[c] = "record" /\ Verdict(req[c]) = "written" /\ req[c].value # 0
       => held[c]
Witnessed == held \in [Clients -> BOOLEAN] /\ \A c \in Clients : Backed(c)
AnswerInv == UnitKnown /\ ReqShape /\ Witnessed

\* A word is not negative.
LEMMA Width == WORD \in Nat /\ WORD > 0
BY DEF WORD

\* It holds when the daemon starts.
LEMMA AnswerInit == Init => AnswerInv
<1> SUFFICES ASSUME Init PROVE AnswerInv
  OBVIOUS
<1>1. UnitKnown
  BY ConfigAssumption DEF Init, UnitKnown, ConfigAssumption
<1>2. ReqShape
  <2>1. \A c \in Clients : pc[c] = "idle" /\ req[c] = NoReq
    BY DEF Init
  <2>2. Shaped(NoReq) /\ NoReq.value = 0
    BY DEF NoReq, Asked, Shaped
  <2>3. pc = [c \in Clients |-> pc[c]] /\ req = [c \in Clients |-> req[c]]
    BY DEF Init
  <2> QED
    BY <2>1, <2>2, <2>3, Width DEF ReqShape, Handled
<1>3. Witnessed
  BY DEF Init, Witnessed, Backed
<1> QED
  BY <1>1, <1>2, <1>3 DEF AnswerInv

\* The unit stays the same, and with it its registers and settings.
LEMMA SameUnit == [Next]_vars => UNCHANGED ups
BY DEF Next, Post, About, Cmd, Handles, PostInvalid, PostWrite, PostReadback,
       PostRecord, PostRefresh, Answered, ControlWrite, PanelSets, Snapshot,
       SnapStart, SnapRead, SnapDecide, SnapInsert, SnapDone, vars

LEMMA SameSettings ==
  ASSUME [Next]_vars, UnitKnown
  PROVE  Settings' = Settings /\ Registers' = Registers /\ UnitKnown'
<1>1. UNCHANGED ups
  BY SameUnit
<1> QED
  BY <1>1 DEF ups, Settings, Registers, UnitKnown

\* The registers are those that are present, the settings the tracked ones
\* of the configuration.
LEMMA RegistersAre ==
  ASSUME UnitKnown
  PROVE  /\ Registers = Present(family, outlets)
         /\ Settings = {r \in Registers : r.name \in tracked /\ r.category = "config"}
<1> DEFINE u == <<family, outlets>>
<1>1. u \in Families \X SUBSET Outlets /\ u[1] = family /\ u[2] = outlets
  BY DEF UnitKnown
<1> HIDE DEF u
<1>2. RegistersOf[u] = Present(family, outlets)
  BY <1>1 DEF RegistersOf
<1>3. SettingsOf[tracked][u] =
        {r \in RegistersOf[u] : r.name \in tracked /\ r.category = "config"}
  BY <1>1 DEF SettingsOf, UnitKnown
<1> QED
  BY <1>2, <1>3 DEF Registers, Settings, u

LEMMA SettingsKnown ==
  ASSUME UnitKnown, NEW r \in Settings
  PROVE  /\ r \in Present(family, outlets) /\ r.category = "config"
         /\ r.name \in tracked /\ r \in Registers
BY RegistersAre

\* The first word is what is read of a setting.
LEMMA RawSetting ==
  ASSUME UnitKnown, NEW r \in Settings, NEW mem
  PROVE  Raw(family, r, mem) = <<mem[r.addr]>>
<1>1. r.count = 1 \/ r.type = "string"
  BY SettingsKnown, SettingShape DEF UnitKnown
<1> QED
  BY <1>1 DEF Raw, SmtRaw, SrtRaw

\* Requests keep their shape, and what they ask for.
LEMMA ReqStep ==
  ASSUME UnitKnown, ReqShape, [Next]_vars
  PROVE  ReqShape'
<1>1. Settings' = Settings
  BY SameSettings
<1>2. ASSUME UNCHANGED <<pc, req>> PROVE ReqShape'
  BY <1>1, <1>2 DEF ReqShape
<1>3. CASE UNCHANGED vars
  BY <1>2, <1>3 DEF vars, http
<1>4. CASE Snapshot
  BY <1>2, <1>4
     DEF Snapshot, SnapStart, SnapRead, SnapDecide, SnapInsert, SnapDone, http
<1>5. ASSUME NEW n \in tracked, NEW value \in Values[n],
             ControlWrite(n, value) \/ PanelSets(n, value)
      PROVE  ReqShape'
  BY <1>2, <1>5 DEF ControlWrite, PanelSets
<1>6. ASSUME NEW c \in Clients, NEW n \in tracked, NEW value \in Values[n],
             Post(c, n, value)
      PROVE  ReqShape'
  <2>1. value \in 0..(WORD - 1)
    <3>1. value \in Nat
      BY ConfigAssumption DEF ConfigAssumption, UnitKnown
    <3>2. value < WORD
      BY <1>6 DEF Post
    <3> QED
      BY <3>1, <3>2, Width
  <2>2. PICK r \in Settings : req' = [req EXCEPT ![c] = Asked(r, value)]
    BY <1>6 DEF Post, Named
  <2>3. pc' = [pc EXCEPT ![c] = "write"]
    BY <1>6 DEF Post, Go
  <2>4. /\ Shaped(Asked(r, value)) /\ Asked(r, value).value = value
        /\ Asked(r, value).reg = r
    BY DEF Shaped, Asked
  <2> QED
    BY <1>1, <2>1, <2>2, <2>3, <2>4 DEF ReqShape
<1>7. ASSUME NEW c \in Clients, Returns(c) PROVE ReqShape'
  <2>1. Shaped(NoReq) /\ NoReq.value \in 0..(WORD - 1)
    BY Width DEF Shaped, Asked, NoReq
  <2>2. pc' = [pc EXCEPT ![c] = "idle"] /\ req' = [req EXCEPT ![c] = NoReq]
    BY <1>7 DEF Returns, Go
  <2> QED
    BY <1>1, <2>1, <2>2 DEF ReqShape, Handled
<1>8. ASSUME NEW c \in Clients, NEW where \in {"idle", "about", "command"},
             Go(c, where), UNCHANGED req
      PROVE  ReqShape'
  BY <1>1, <1>8 DEF ReqShape, Go, Handled
<1>9. ASSUME NEW c \in Clients, pc[c] \in Handled, NEW where, Go(c, where),
             NEW new, Shaped(new), new.reg = req[c].reg, new.value = req[c].value,
             req' = [req EXCEPT ![c] = new]
      PROVE  ReqShape'
  BY <1>1, <1>9 DEF ReqShape, Go
<1>10. ASSUME NEW c \in Clients, PostWrite(c) PROVE ReqShape'
  <2>1. PICK ok : req' = [req EXCEPT ![c].ok = ok]
    BY <1>10 DEF PostWrite
  <2> DEFINE new == [req[c] EXCEPT !.ok = ok]
  <2>2. Shaped(new) /\ new.reg = req[c].reg /\ new.value = req[c].value
    BY DEF ReqShape, Shaped
  <2>3. req' = [req EXCEPT ![c] = new] /\ pc[c] \in Handled /\ Go(c, "readback")
    BY <1>10, <2>1 DEF PostWrite, Handled
  <2> HIDE DEF new
  <2> QED
    BY <1>9, <2>2, <2>3
<1>11. ASSUME NEW c \in Clients, PostReadback(c) PROVE ReqShape'
  <2>1. PICK w : req' = [req EXCEPT ![c].readback = w]
    BY <1>11 DEF PostReadback
  <2> DEFINE new == [req[c] EXCEPT !.readback = w]
  <2>2. Shaped(new) /\ new.reg = req[c].reg /\ new.value = req[c].value
    BY DEF ReqShape, Shaped
  <2>3. req' = [req EXCEPT ![c] = new] /\ pc[c] \in Handled /\ Go(c, "record")
    BY <1>11, <2>1 DEF PostReadback, Handled
  <2> HIDE DEF new
  <2> QED
    BY <1>9, <2>2, <2>3
<1>12. ASSUME NEW c \in Clients, PostRecord(c) PROVE ReqShape'
  <2>1. CASE Returns(c)
    BY <1>7, <2>1
  <2>2. CASE Go(c, "refresh") /\ UNCHANGED req
    BY <1>1, <1>12, <2>2 DEF ReqShape, Go, PostRecord, Handled
  <2> QED
    BY <1>12, <2>1, <2>2 DEF PostRecord
<1> QED
  BY <1>3, <1>4, <1>5, <1>6, <1>7, <1>8, <1>10, <1>11, <1>12
     DEF Next, Handles, About, Cmd, Answered, PostInvalid, PostRefresh

\* A word set to what a request asked for is a witness of it.
LEMMA WordSet ==
  ASSUME ReqShape, Witnessed, NEW addr, NEW value, NEW who,
         SetWord(addr, value, who)
  PROVE  /\ held' \in [Clients -> BOOLEAN]
         /\ \A c \in Clients :
              /\ held[c] => held'[c]
              /\ pc[c] = "write" /\ req[c].reg.addr = addr /\ req[c].value = value
                   => held'[c]
<1>1. held' = [c \in Clients |->
        \/ held[c]
        \/ /\ pc[c] \in {"write", "readback"} /\ req[c].reg.addr = addr
           /\ req[c].value = value]
  BY DEF SetWord
<1>2. \A c \in Clients : held[c] \in BOOLEAN
  BY DEF Witnessed
<1>3. \A c \in Clients :
        held'[c] <=> \/ held[c]
                     \/ /\ pc[c] \in {"write", "readback"} /\ req[c].reg.addr = addr
                        /\ req[c].value = value
  BY <1>1
<1>4. held' \in [Clients -> BOOLEAN]
  BY <1>1, <1>2
<1> QED
  BY <1>3, <1>4

\* The witnesses keep up with the requests.
LEMMA WitnessStep ==
  ASSUME AnswerInv, [Next]_vars
  PROVE  Witnessed'
<1>1. UnitKnown /\ ReqShape /\ Witnessed
  BY DEF AnswerInv
<1>2. ASSUME UNCHANGED <<pc, req, held>> PROVE Witnessed'
  BY <1>1, <1>2 DEF Witnessed, Backed, Verdict
<1>3. CASE UNCHANGED vars
  BY <1>2, <1>3 DEF vars, http
<1>4. CASE Snapshot
  BY <1>2, <1>4
     DEF Snapshot, SnapStart, SnapRead, SnapDecide, SnapInsert, SnapDone, http
\* A word is set under a request.
<1>5. ASSUME UNCHANGED <<pc, req>>, held' \in [Clients -> BOOLEAN],
             \A c \in Clients : held[c] => held'[c]
      PROVE  Witnessed'
  BY <1>1, <1>5 DEF Witnessed, Backed, Verdict
<1>6. ASSUME NEW n \in tracked, NEW value \in Values[n],
             ControlWrite(n, value) \/ PanelSets(n, value)
      PROVE  Witnessed'
  <2>1. PICK r, who : SetWord(r.addr, value, who)
    BY <1>6 DEF ControlWrite, PanelSets
  <2>2. UNCHANGED <<pc, req>>
    BY <1>6 DEF ControlWrite, PanelSets
  <2> QED
    BY <1>1, <1>5, <2>1, <2>2, WordSet
\* A request goes on.
<1>7. ASSUME NEW c \in Clients, NEW where, Go(c, where),
             held' \in [Clients -> BOOLEAN],
             \A d \in Clients \ {c} : req'[d] = req[d] /\ (held[d] => held'[d]),
             /\ where = "readback" /\ req'[c].ok => held'[c]
             /\ where = "record" /\ Verdict(req'[c]) = "written" /\ req'[c].value # 0
                  => held'[c]
      PROVE  Witnessed'
  <2>1. pc'[c] = where /\ \A d \in Clients \ {c} : pc'[d] = pc[d]
    BY <1>1, <1>7 DEF ReqShape, Go
  <2>2. Backed(c)'
    BY <1>7, <2>1 DEF Backed, Verdict
  <2>3. ASSUME NEW d \in Clients \ {c} PROVE Backed(d)'
    BY <1>1, <1>7, <2>1 DEF Backed, Verdict, Witnessed
  <2> QED
    BY <1>7, <2>2, <2>3 DEF Witnessed
<1>8. ASSUME NEW c \in Clients, Returns(c) PROVE Witnessed'
  <2>1. /\ held' = [held EXCEPT ![c] = FALSE] /\ Go(c, "idle")
        /\ req' = [req EXCEPT ![c] = NoReq]
    BY <1>8 DEF Returns
  <2>2. held' \in [Clients -> BOOLEAN] /\ \A d \in Clients \ {c} : held'[d] = held[d]
    BY <1>1, <2>1 DEF Witnessed
  <2>3. \A d \in Clients \ {c} : req'[d] = req[d]
    BY <1>1, <2>1 DEF ReqShape
  <2> QED
    BY <1>7, <2>1, <2>2, <2>3
<1>9. ASSUME NEW c \in Clients, NEW where \in {"idle", "about", "command", "refresh"},
             Go(c, where), UNCHANGED <<req, held>>
      PROVE  Witnessed'
  BY <1>1, <1>7, <1>9 DEF Witnessed
<1>10. ASSUME NEW c \in Clients, NEW n \in tracked, NEW value \in Values[n],
              Post(c, n, value)
       PROVE  Witnessed'
  <2>1. /\ Go(c, "write") /\ UNCHANGED held
        /\ \E r : req' = [req EXCEPT ![c] = Asked(r, value)]
    BY <1>10 DEF Post
  <2>2. \A d \in Clients \ {c} : req'[d] = req[d]
    BY <1>1, <2>1 DEF ReqShape
  <2> QED
    BY <1>1, <1>7, <2>1, <2>2 DEF Witnessed
<1>11. ASSUME NEW c \in Clients, PostWrite(c) PROVE Witnessed'
  <2> DEFINE reg == req[c].reg
             value == req[c].value
             bare == [held EXCEPT ![c] = @ \/ Mem[reg.addr] = value]
  <2>1. PICK taken \in BOOLEAN, answered \in BOOLEAN :
          /\ req' = [req EXCEPT ![c].ok =
                       WriteOk(family, reg, value, Mem, taken, answered)]
          /\ IF taken THEN SetWord(reg.addr, value, "api") ELSE held' = bare
    BY <1>11 DEF PostWrite
  <2> DEFINE ok == WriteOk(family, reg, value, Mem, taken, answered)
  <2>2. pc[c] = "write" /\ Go(c, "readback")
    BY <1>11 DEF PostWrite
  <2>3. \A d \in Clients \ {c} : req'[d] = req[d]
    BY <1>1, <2>1 DEF ReqShape
  <2>4. req'[c].ok <=> ok
    BY <1>1, <2>1 DEF ReqShape, Shaped
  <2>5. CASE taken
    <3>1. SetWord(reg.addr, value, "api")
      BY <2>1, <2>5
    <3>2. /\ held' \in [Clients -> BOOLEAN] /\ held'[c]
          /\ \A d \in Clients : held[d] => held'[d]
      BY <1>1, <2>2, <3>1, WordSet
    <3> QED
      BY <1>7, <2>2, <2>3, <3>2
  <2>6. CASE ~taken
    <3>1. held' = bare
      BY <2>1, <2>6
    <3>2. held' \in [Clients -> BOOLEAN] /\ \A d \in Clients \ {c} : held'[d] = held[d]
      BY <1>1, <3>1 DEF Witnessed
    <3>3. held'[c] <=> held[c] \/ Mem[reg.addr] = value
      BY <1>1, <3>1 DEF Witnessed
    <3>4. ok => Mem[reg.addr] = value
      BY <2>6 DEF WriteOk, Written, SmtWritten, SrtWritten
    <3> QED
      BY <1>7, <2>2, <2>3, <2>4, <3>2, <3>3, <3>4
  <2> QED
    BY <2>5, <2>6
<1>12. ASSUME NEW c \in Clients, PostReadback(c) PROVE Witnessed'
  <2> DEFINE reg == req[c].reg
             value == req[c].value
  <2>1. pc[c] = "readback" /\ Go(c, "record") /\ Backed(c) /\ reg \in Settings
    BY <1>1, <1>12 DEF PostReadback, Witnessed, ReqShape, Handled
  <2>2. ASSUME NEW w, req' = [req EXCEPT ![c].readback = w]
        PROVE  /\ \A d \in Clients \ {c} : req'[d] = req[d]
               /\ req'[c].readback = w /\ req'[c].value = value
               /\ req'[c].ok = req[c].ok
    BY <1>1, <2>2 DEF ReqShape, Shaped
  <2>3. CASE /\ req' = [req EXCEPT ![c].readback = Raw(family, reg, Mem)]
             /\ held' = [held EXCEPT ![c] = @ \/ Mem[reg.addr] = value]
    <3>1. Raw(family, reg, Mem) = <<Mem[reg.addr]>>
      BY <1>1, <2>1, RawSetting
    <3>2. held' \in [Clients -> BOOLEAN] /\ \A d \in Clients \ {c} : held'[d] = held[d]
      BY <1>1, <2>3 DEF Witnessed
    <3>3. held'[c] <=> held[c] \/ Mem[reg.addr] = value
      BY <1>1, <2>3 DEF Witnessed
    <3>4. Verdict(req'[c]) = "written" => held'[c]
      <4>1. /\ req'[c].readback = <<Mem[reg.addr]>> /\ req'[c].value = value
            /\ req'[c].ok = req[c].ok
        BY <2>2, <2>3, <3>1
      <4>2. req[c].ok => held[c]
        BY <2>1 DEF Backed
      <4>3. Verdict(req'[c]) = "written" => req[c].ok \/ Mem[reg.addr] = value
        BY <4>1 DEF Verdict
      <4> QED
        BY <3>3, <4>2, <4>3
    <3> QED
      BY <1>7, <2>1, <2>2, <2>3, <3>2, <3>4
  <2>4. CASE req' = [req EXCEPT ![c].readback = <<0>>] /\ UNCHANGED held
    <3>1. Verdict(req'[c]) = "written" /\ value # 0 => held'[c]
      BY <2>1, <2>2, <2>4 DEF Verdict, Backed
    <3> QED
      BY <1>1, <1>7, <2>1, <2>2, <2>4, <3>1 DEF Witnessed
  <2> QED
    BY <1>12, <2>3, <2>4 DEF PostReadback
<1>13. ASSUME NEW c \in Clients, PostRecord(c) PROVE Witnessed'
  BY <1>8, <1>9, <1>13 DEF PostRecord
<1> QED
  BY <1>3, <1>4, <1>6, <1>8, <1>9, <1>10, <1>11, <1>12, <1>13
     DEF Next, Handles, About, Cmd, Answered, PostInvalid, PostRefresh

\* The invariant.
LEMMA AnswerAlways == Spec => []AnswerInv
<1>1. AnswerInv /\ [Next]_vars => AnswerInv'
  BY SameSettings, ReqStep, WitnessStep DEF AnswerInv
<1> QED
  BY <1>1, AnswerInit, PTL DEF Spec

\* A client told "written" asked for a value the unit has held since
\* (config.c:296-312).
THEOREM AnswersAlwaysHonest == Spec => AnswerHonest
<1>1. AnswerInv => [\A c \in Clients :
        PostRecord(c) /\ Verdict(req[c]) = "written" /\ req[c].value # 0
          => held[c]]_vars
  BY DEF AnswerInv, Witnessed, Backed, PostRecord
<1> QED
  BY <1>1, AnswerAlways, PTL DEF AnswerHonest

-----------------------------------------------------------------------------
(* A write touches one register, a command none.                            *)

\* All registers are below the commands, and backed by a word.
LEMMA RegisterPlaces ==
  ASSUME UnitKnown, NEW r \in Registers
  PROVE  /\ r.addr \in Nat /\ r.count \in Nat /\ r.addr + r.count <= 1536
         /\ \A i \in 1..r.count : r.addr + i - 1 \in DOMAIN Mem
<1>1. r \in Present(family, outlets) /\ r \in Tables
  BY RegistersAre DEF Present, Tables
<1>2. InBlock(r) \/ IsUnit(family, r) \/ IsName(r) \/ IsOutlet(family, r)
  BY <1>1, Kinds DEF UnitKnown
<1>3. r.addr \in Nat /\ r.count \in Nat /\ r.addr + r.count <= 1536
  BY <1>2 DEF InBlock, IsUnit, IsName, IsOutlet, UnitArea, NameArea
<1>4. r.addr..(r.addr + r.count - 1) \subseteq DOMAIN Mem
  BY <1>1, ConfigAssumption DEF ConfigAssumption, Mem
<1>5. \A i \in 1..r.count : r.addr + i - 1 \in r.addr..(r.addr + r.count - 1)
  BY <1>3
<1> QED
  BY <1>3, <1>4, <1>5

\* A register keeps its words when none of them is stored to.
LEMMA Spared ==
  ASSUME UnitKnown, NEW r \in Registers, NEW addr, NEW sent,
         \A i \in 1..r.count : r.addr + i - 1 \notin addr..(addr + Len(sent) - 1)
  PROVE  Words(r, Stored(Mem, addr, sent)) = Words(r, Mem)
<1>1. \A i \in 1..r.count : r.addr + i - 1 \in DOMAIN Mem
  BY RegisterPlaces
<1>2. \A i \in 1..r.count :
        Stored(Mem, addr, sent)[r.addr + i - 1] = Mem[r.addr + i - 1]
  BY <1>1 DEF Stored
<1> QED
  BY <1>2 DEF Words

\* The commands are above all registers.
LEMMA CommandPlaces ==
  ASSUME NEW cmd \in DOMAIN Commands(family)
  PROVE  Commands(family)[cmd][1] \in 1536..1543
<1>1. \A x \in DOMAIN SmtCommands : SmtCommands[x][1] \in 1536..1543
  BY DEF SmtCommands
<1>2. \A x \in DOMAIN BypassCommands : BypassCommands[x][1] \in 1536..1543
  BY DEF BypassCommands
<1>3. \A x \in DOMAIN SrtCommands : SrtCommands[x][1] \in 1536..1543
  BY <1>1, <1>2 DEF SrtCommands
<1> QED
  BY <1>1, <1>3 DEF Commands

\* Hence no register but the one that is set is touched.
LEMMA ApartImplied == AnswerInv => WritesApart
<1> SUFFICES ASSUME AnswerInv, NEW c \in Clients
             PROVE  /\ pc[c] = "write" =>
                         \A r \in Registers \ {req[c].reg} :
                           Words(r, Stored(Mem, req[c].reg.addr, <<req[c].value>>))
                             = Words(r, Mem)
                    /\ pc[c] = "command" =>
                         \A cmd \in DOMAIN Commands(family) :
                           \A r \in Registers \ {} :
                             Words(r, Stored(Mem, Commands(family)[cmd][1],
                                             Commands(family)[cmd][2]))
                               = Words(r, Mem)
  BY DEF WritesApart
<1>1. UnitKnown
  BY DEF AnswerInv
<1>2. ASSUME pc[c] = "write", NEW r \in Registers, r # req[c].reg
      PROVE  Words(r, Stored(Mem, req[c].reg.addr, <<req[c].value>>)) = Words(r, Mem)
  <2> DEFINE q == req[c].reg
  <2>1. q \in Settings
    BY <1>2 DEF AnswerInv, ReqShape, Handled
  <2>2. q \in Present(family, outlets) /\ q.category = "config" /\ q.addr \in Nat
    BY <1>1, <2>1, SettingsKnown, SettingShape DEF UnitKnown
  <2>3. r \in Present(family, outlets)
    BY <1>1, RegistersAre
  <2>4. \A i \in 1..r.count : r.addr + i - 1 # q.addr
    BY <1>1, <1>2, <2>2, <2>3, SettingsApart DEF UnitKnown
  <2>5. q.addr..(q.addr + Len(<<req[c].value>>) - 1) = {q.addr}
    BY <2>2
  <2> HIDE DEF q
  <2>6. Words(r, Stored(Mem, q.addr, <<req[c].value>>)) = Words(r, Mem)
    BY <1>1, <2>4, <2>5, Spared
  <2> QED
    BY <2>6 DEF q
<1>3. ASSUME NEW cmd \in DOMAIN Commands(family), NEW r \in Registers
      PROVE  Words(r, Stored(Mem, Commands(family)[cmd][1], Commands(family)[cmd][2]))
               = Words(r, Mem)
  <2> DEFINE addr == Commands(family)[cmd][1]
             sent == Commands(family)[cmd][2]
  <2>1. addr \in 1536..1543
    BY CommandPlaces
  <2>2. /\ r.addr \in Nat /\ r.count \in Nat /\ r.addr + r.count <= 1536
    BY <1>1, RegisterPlaces
  <2> HIDE DEF addr, sent
  <2>3. \A i \in 1..r.count : r.addr + i - 1 \notin addr..(addr + Len(sent) - 1)
    BY <2>1, <2>2
  <2>4. Words(r, Stored(Mem, addr, sent)) = Words(r, Mem)
    BY <1>1, <2>3, Spared
  <2> QED
    BY <2>4 DEF addr, sent
<1> QED
  BY <1>2, <1>3

\* Neither the setting of a register nor a command touches any other register
\* (ups_smt.c:340-445, ups_srt.c: the tables of registers and commands).
THEOREM WritesAlwaysApart == Spec => []WritesApart
BY AnswerAlways, ApartImplied, PTL

-----------------------------------------------------------------------------
(* What the pages tell of a register is what is read of it.                 *)

\* What is read of a register of n words that is no string.
Read(m, addr, n) == IF n = 2 THEN <<m[addr], m[addr + 1]>> ELSE <<m[addr]>>

\* What is read of a register that is no string.
LEMMA RawIs ==
  ASSUME NEW fam, NEW r, NEW m,
         r.type # "string", r.addr \in Nat, r.count \in {1, 2}
  PROVE  Raw(fam, r, m) = Read(m, r.addr, r.count)
<1>1. CASE r.count = 1
  BY <1>1 DEF Raw, SmtRaw, SrtRaw, Read
<1>2. CASE r.count = 2
  <2> DEFINE S == {m[r.addr], m[r.addr + 1]}
             w == Words(r, m)
  <2>1. w = [i \in 1..2 |-> m[r.addr + i - 1]]
    BY <1>2 DEF Words
  <2>2. w[1] = m[r.addr] /\ w[2] = m[r.addr + 1] /\ DOMAIN w = 1..2
    BY <2>1
  <2>3. w \in Seq(S) /\ Len(w) = 2
    BY <2>1, <2>2
  <2>6. w = <<m[r.addr], m[r.addr + 1]>>
    BY <2>1, <2>2
  <2> HIDE DEF S, w
  <2>4. SubSeq(w, 1, 2) = w
    BY <2>3, SubSeqFull
  <2>5. SubSeq(Words(r, m), 1, 2) = <<m[r.addr], m[r.addr + 1]>>
    BY <2>4, <2>6 DEF w
  <2> QED
    BY <1>2, <2>5 DEF Raw, SmtRaw, SrtRaw, Read
<1> QED
  BY <1>1, <1>2

StatusRows ==
  {<<"ups_status", 0, 2>>, <<"transfer_reason", 2, 1>>, <<"mog", 3, 2>>,
   <<"sog0", 6, 2>>, <<"sog1", 9, 2>>, <<"sog2", 12, 2>>,
   <<"signaling_status", 18, 1>>, <<"general_error", 19, 1>>,
   <<"power_system_error", 20, 2>>, <<"battery_system_error", 22, 1>>,
   <<"replace_battery_test_status", 23, 1>>,
   <<"runtime_calibration_status", 24, 1>>,
   <<"battery_lifetime_status", 25, 1>>, <<"ui_status", 26, 1>>}

\* A status field is what its row of the table says.
LEMMA StatusTold ==
  ASSUME NEW m, NEW row \in StatusRows, row[1] \in DOMAIN SmtReadStatus(m)
  PROVE  SmtReadStatus(m)[row[1]] = Read(m, row[2], row[3])
<1> DEFINE b == Block(m, 0, 27)
<1>1. ASSUME NEW k \in 0..26 PROVE b[k] = m[k]
  <2>1. 0 + k = k /\ k \in 0..(27 - 1)
    OBVIOUS
  <2> QED
    BY <2>1 DEF Block
<1> HIDE DEF b
<1>2. SmtReadStatus(m) =
  [ups_status |-> <<b[0], b[1]>>, transfer_reason |-> <<b[2]>>,
   mog |-> <<b[3], b[4]>>, sog0 |-> <<b[6], b[7]>>, sog1 |-> <<b[9], b[10]>>,
   signaling_status |-> <<b[18]>>, general_error |-> <<b[19]>>,
   power_system_error |-> <<b[20], b[21]>>,
   battery_system_error |-> <<b[22]>>,
   replace_battery_test_status |-> <<b[23]>>,
   runtime_calibration_status |-> <<b[24]>>,
   battery_lifetime_status |-> <<b[25]>>, ui_status |-> <<b[26]>>]
  BY DEF b, SmtReadStatus
<1>3. row[1] # "sog2"
  BY <1>2
<1> QED
  BY <1>1, <1>2, <1>3 DEF StatusRows, Read

\* The timers of an SRT
TimerRows ==
  {<<"shutdown_timer", 155, 1>>, <<"start_timer", 156, 1>>,
   <<"reboot_timer", 157, 2>>}
Measured == DynamicRows \cup TimerRows

\* A word taken as signed is taken as it is when it is not negative.
Plain(m, row) == row[1] \in ReadAsSigned => ~Negative(m[row[2]])

\* So is a reading, on either family.
LEMMA DynamicTellsSmt ==
  ASSUME NEW m, NEW row \in Measured, Plain(m, row),
         row[1] \in DOMAIN SmtReadDynamic(m)
  PROVE  SmtReadDynamic(m)[row[1]] = Read(m, row[2], row[3])
<1> DEFINE b == Block(m, 128, 44)
<1>1. ASSUME NEW k \in 0..43 PROVE b[k] = m[128 + k]
  <2>1. k \in 0..(44 - 1)
    OBVIOUS
  <2> QED
    BY <2>1 DEF Block
<1>2. /\ b[0] = m[128] /\ b[1] = m[129] /\ b[2] = m[130] /\ b[3] = m[131]
      /\ b[8] = m[136] /\ b[12] = m[140] /\ b[14] = m[142] /\ b[16] = m[144]
      /\ b[17] = m[145] /\ b[18] = m[146] /\ b[22] = m[150] /\ b[23] = m[151]
  BY <1>1
<1>4. /\ b[26] = m[154] /\ b[27] = m[155] /\ b[28] = m[156] /\ b[29] = m[157]
      /\ b[30] = m[158]
  BY <1>1
<1> DEFINE v == Signed(b[3])
           e == IF Negative(b[26]) THEN 0 ELSE b[26]
           why == IF Negative(b[26]) THEN -Signed(b[26]) ELSE 0
           off == Signed(b[27])
           on == Signed(b[28])
           again == Signed(b[29])
<1>3. SmtReadDynamic(m) =
  [battery_runtime |-> <<b[0], b[1]>>, battery_charge_pct |-> <<b[2]>>,
   battery_voltage_pos |-> <<v>>, output_load_pct |-> <<b[8]>>,
   output_current |-> <<b[12]>>, output_voltage |-> <<b[14]>>,
   output_frequency |-> <<b[16]>>, output_energy |-> <<b[17], b[18]>>,
   input_status |-> <<b[22]>>, input_voltage |-> <<b[23]>>,
   efficiency |-> <<e>>, efficiency_reason |-> <<why>>,
   shutdown_timer |-> <<off>>, start_timer |-> <<on>>,
   reboot_timer |-> <<again, b[30]>>]
  BY DEF b, SmtReadDynamic
<1>5. /\ row[1] = "battery_voltage_pos" => v = m[131]
      /\ row[1] = "efficiency" => e = m[154]
      /\ row[1] = "shutdown_timer" => off = m[155]
      /\ row[1] = "start_timer" => on = m[156]
      /\ row[1] = "reboot_timer" => again = m[157]
  <2>1. /\ row[1] = "battery_voltage_pos" => row[2] = 131
        /\ row[1] = "efficiency" => row[2] = 154
        /\ row[1] = "shutdown_timer" => row[2] = 155
        /\ row[1] = "start_timer" => row[2] = 156
        /\ row[1] = "reboot_timer" => row[2] = 157
    BY DEF Measured, DynamicRows, TimerRows
  <2> HIDE DEF b
  <2> QED
    BY <1>2, <1>4, <2>1 DEF Plain, ReadAsSigned, Signed
<1> HIDE DEF b, v, e, why, off, on, again
<1>6. CASE row \in DynamicRows
  BY <1>2, <1>3, <1>5, <1>6 DEF DynamicRows, Read
<1>7. CASE row \in TimerRows
  BY <1>3, <1>4, <1>5, <1>7 DEF TimerRows, Read
<1> QED
  BY <1>6, <1>7 DEF Measured

LEMMA DynamicTellsSrt ==
  ASSUME NEW m, NEW row \in Measured, Plain(m, row),
         row[1] \in DOMAIN SrtReadDynamic(m)
  PROVE  SrtReadDynamic(m)[row[1]] = Read(m, row[2], row[3])
<1> DEFINE d == SmtReadDynamic(m)
           p == Bypass(m)
<1>1. SrtReadDynamic(m) =
        [f \in DOMAIN d \cup DOMAIN p |-> IF f \in DOMAIN d THEN d[f] ELSE p[f]]
  BY DEF SrtReadDynamic
<1>2. CASE row[1] \in DOMAIN d
  BY <1>1, <1>2, DynamicTellsSmt
<1>3. CASE row[1] \in DOMAIN p /\ row[1] \notin DOMAIN d
  <2>1. p[row[1]] = Read(m, row[2], row[3])
    BY <1>3 DEF Bypass, Measured, DynamicRows, TimerRows, Read
  <2> QED
    BY <1>1, <1>3, <2>1
<1> QED
  BY <1>1, <1>2, <1>3

TextRows ==
  {<<"firmware_version", 516, 8>>, <<"model_name", 532, 16>>,
   <<"sku", 548, 16>>, <<"serial_number", 564, 8>>, <<"battery_sku", 572, 8>>}
PlainRows ==
  {<<"nominal_apparent_power", 588, 1>>, <<"nominal_real_power", 589, 1>>,
   <<"sog_relay_config", 590, 1>>}

\* An inventory register is a row of one of the tables.
LEMMA InventoryShape ==
  ASSUME NEW r \in SmtInventory
  PROVE  \E row \in TextRows \cup PlainRows :
           /\ r.name = Unit(row[1]) /\ r.addr = row[2] /\ r.count = row[3]
           /\ r.type = "string" <=> row \in TextRows
           /\ r.category = "identity"
<1>1. \A x \in TextRows : x \notin PlainRows
  BY DEF TextRows, PlainRows
<1>2. CASE \E row \in TextRows : r = Text(Unit(row[1]), row[2], row[3], "identity")
  BY <1>2 DEF Text, Register
<1>3. CASE \E row \in PlainRows : /\ \/ r = Word(row[1], row[2], "identity")
                                    \/ r = Flag(row[1], row[2], 1, "identity")
                                 /\ row[3] = 1
  BY <1>1, <1>3 DEF Word, Flag, Register
<1> QED
  BY <1>2, <1>3 DEF SmtInventory, TextRows, PlainRows

\* An identity field is what its row says.
LEMMA InventoryTold ==
  ASSUME NEW m
  PROVE  /\ \A row \in TextRows : row[1] \in DOMAIN SmtReadInventory(m) =>
              SmtReadInventory(m)[row[1]] = [i \in 1..row[3] |-> m[row[2] + i - 1]]
         /\ \A row \in PlainRows : row[1] \in DOMAIN SmtReadInventory(m) =>
              SmtReadInventory(m)[row[1]] = <<m[row[2]]>>
<1> DEFINE b == Block(m, 516, 80)
           S(k, n) == [i \in 1..n |-> b[k + i - 1]]
           M(k, n) == [i \in 1..n |-> m[k + i - 1]]
<1>1. ASSUME NEW k \in 0..79 PROVE b[k] = m[516 + k]
  <2>1. k \in 0..(80 - 1)
    OBVIOUS
  <2> QED
    BY <2>1 DEF Block
<1>2. ASSUME NEW k \in 0..79, NEW n \in 1..16, k + n <= 80
      PROVE  S(k, n) = M(516 + k, n)
  <2>1. ASSUME NEW i \in 1..n PROVE b[k + i - 1] = m[516 + k + i - 1]
    <3>1. k + i - 1 \in 0..79 /\ 516 + (k + i - 1) = 516 + k + i - 1
      BY <1>2
    <3> HIDE DEF b
    <3> QED
      BY <1>1, <3>1
  <2> QED
    BY <2>1
<1>3. b[72] = m[588] /\ b[73] = m[589] /\ b[74] = m[590]
  BY <1>1
<1>4. /\ S(0, 8) = M(516, 8) /\ S(16, 16) = M(532, 16) /\ S(32, 16) = M(548, 16)
      /\ S(48, 8) = M(564, 8)
  <2> HIDE DEF b, S, M
  <2> QED
    BY <1>2
<1>5. SmtReadInventory(m) =
  [firmware_version |-> S(0, 8), model_name |-> S(16, 16), sku |-> S(32, 16),
      serial_number |-> S(48, 8), nominal_apparent_power |-> <<b[72]>>,
      nominal_real_power |-> <<b[73]>>, sog_relay_config |-> <<b[74]>>]
  BY DEF b, S, SmtReadInventory
<1> HIDE DEF b, S, M
<1>6. \A row \in TextRows : row[1] \in DOMAIN SmtReadInventory(m) =>
              SmtReadInventory(m)[row[1]] = M(row[2], row[3])
  BY <1>4, <1>5 DEF TextRows
<1>7. \A row \in PlainRows : row[1] \in DOMAIN SmtReadInventory(m) =>
              SmtReadInventory(m)[row[1]] = <<m[row[2]]>>
  BY <1>3, <1>5 DEF PlainRows
<1> QED
  BY <1>6, <1>7 DEF M

\* A status register is a row of the table; that of an outlet is named after it.
LEMMA StatusShape ==
  ASSUME NEW r \in SmtStatus
  PROVE  /\ <<IF r.name[2] = "status" THEN r.name[1] ELSE r.name[2],
              r.addr, r.count>> \in StatusRows
         /\ r.type # "string" /\ r.category = "diagnostic" /\ r.name \notin Thresholds
BY DEF SmtStatus, Flag, Register, OutletStatus, StatusRows, Unit, Thresholds

\* The other quantities, which only /api/about lists.
Unpaired ==
  {"off_countdown", "on_countdown", "stayoff_countdown", "manufacture_date",
   "external_battery_sku"}

\* No page but /api/about tells of them.
LEMMA UnpairedTold ==
  ASSUME NEW m
  PROVE  /\ Unpaired \cap DOMAIN SmtReadDynamic(m) = {}
         /\ Unpaired \cap DOMAIN SrtReadDynamic(m) = {}
         /\ Unpaired \cap DOMAIN SmtReadInventory(m) = {}
<1>1. Unpaired \cap DOMAIN SmtReadDynamic(m) = {}
  BY DEF Unpaired, SmtReadDynamic
<1>2. Unpaired \cap DOMAIN Bypass(m) = {}
  BY DEF Unpaired, Bypass
<1>3. DOMAIN SrtReadDynamic(m) = DOMAIN SmtReadDynamic(m) \cup DOMAIN Bypass(m)
  BY DEF SrtReadDynamic
<1>4. Unpaired \cap DOMAIN SmtReadInventory(m) = {}
  BY DEF Unpaired, SmtReadInventory
<1> QED
  BY <1>1, <1>2, <1>3, <1>4

\* Settings of the unit are settings, but for an SRT's date of manufacture; the
\* two thresholds have the addresses the reader of the thresholds knows.
LEMMA UnitKinds ==
  ASSUME NEW fam \in Families, NEW r \in UnitOf(fam)
  PROVE  /\ \/ r.category = "config"
            \/ r.category = "identity" /\ r.name[2] = "manufacture_date"
         /\ r.type # "string"
         /\ r.name[2] = "transfer_high" => r.addr = 1026
         /\ r.name[2] = "transfer_low" => r.addr = 1027
<1>1. ASSUME NEW n, NEW a, NEW lo, NEW hi
      PROVE  /\ Scalar(n, a, lo, hi).category = "config"
             /\ Open(Scalar(n, a, lo, hi)).category = "config"
             /\ Scalar(n, a, lo, hi).name = n /\ Scalar(n, a, lo, hi).addr = a
             /\ Open(Scalar(n, a, lo, hi)).name = n
             /\ Open(Scalar(n, a, lo, hi)).addr = a
  BY DEF Open, Scalar, Register
<1>2. ASSUME NEW what, NEW a, NEW opts
      PROVE  /\ Choice(what, a, opts).category = "config"
             /\ Open(Choice(what, a, opts)).category = "config"
             /\ Choice(what, a, opts).name = <<"unit", what>>
             /\ Open(Choice(what, a, opts)).name = <<"unit", what>>
  BY DEF Open, Choice, Register, Unit
<1>3. \A x \in SmtUnit : x.category = "config"
  BY <1>1, <1>2 DEF SmtUnit
<1> DEFINE dated == [Scalar(Unit("manufacture_date"), 591, 0, 65535)
                       EXCEPT !.category = "identity"]
<1>4. dated.category = "identity" /\ dated.name[2] = "manufacture_date"
  BY DEF Scalar, Register, Unit
<1>5. ASSUME NEW x \in SrtUnit
      PROVE  \/ x.category = "config"
             \/ x.category = "identity" /\ x.name[2] = "manufacture_date"
  <2>1. x = dated \/ x.category = "config"
    BY <1>1, <1>2 DEF SrtUnit
  <2> HIDE DEF dated
  <2> QED
    BY <1>4, <2>1
<1>6. /\ \A x \in SmtUnit : x.type # "string"
      /\ \A x \in SrtUnit : x.type # "string"
  BY DEF SmtUnit, SrtUnit, Open, Scalar, Choice, Register, Unit
<1>7. \A x \in SmtUnit \cup SrtUnit : x.name[2] = "transfer_high" => x.addr = 1026
  <2>1. \A x \in SmtUnit : x.name[2] = "transfer_high" => x.addr = 1026
    BY <1>1, <1>2 DEF SmtUnit, Unit
  <2>2. ASSUME NEW x \in SrtUnit, x.name[2] = "transfer_high" PROVE x.addr = 1026
    <3>1. x = dated \/ x.addr = 1026
      BY <1>1, <1>2, <2>2 DEF SrtUnit, Unit
    <3> HIDE DEF dated
    <3> QED
      BY <1>4, <2>2, <3>1
  <2> QED
    BY <2>1, <2>2
<1>8. \A x \in SmtUnit \cup SrtUnit : x.name[2] = "transfer_low" => x.addr = 1027
  <2>1. \A x \in SmtUnit : x.name[2] = "transfer_low" => x.addr = 1027
    BY <1>1, <1>2 DEF SmtUnit, Unit
  <2>2. ASSUME NEW x \in SrtUnit, x.name[2] = "transfer_low" PROVE x.addr = 1027
    <3>1. x = dated \/ x.addr = 1027
      BY <1>1, <1>2, <2>2 DEF SrtUnit, Unit
    <3> HIDE DEF dated
    <3> QED
      BY <1>4, <2>2, <3>1
  <2> QED
    BY <2>1, <2>2
<1> HIDE DEF dated
<1>9. r \in SmtUnit \cup SrtUnit
  BY DEF UnitOf
<1>10. \/ r.category = "config"
       \/ r.category = "identity" /\ r.name[2] = "manufacture_date"
  BY <1>3, <1>5, <1>9
<1>11. r.type # "string"
  BY <1>6, <1>9
<1>12. r.name[2] = "transfer_high" => r.addr = 1026
  BY <1>7, <1>9
<1>13. r.name[2] = "transfer_low" => r.addr = 1027
  BY <1>8, <1>9
<1> QED
  BY <1>10, <1>11, <1>12, <1>13

SameOn(page, r, what) == what \in DOMAIN page => page[what] = Listed(r)
WhatOf(r) == IF r.name[2] = "status" THEN r.name[1] ELSE r.name[2]
AgreesOn(r) ==
  \/ ToldApart(r)
  \/ /\ r.category = "diagnostic" => SameOn(StatusPage, r, WhatOf(r))
     /\ r.category = "measurement" => SameOn(DynamicPage, r, WhatOf(r))
     /\ r.category = "identity" => SameOn(IdentityPage, r, WhatOf(r))
     /\ r.name \in Thresholds => SameOn(ReadThresholds, r, WhatOf(r))

\* Two pages agree when one tells what is read of the register.
LEMMA RowRead ==
  ASSUME NEW page, NEW r, NEW what,
         r.type # "string", r.addr \in Nat, r.count \in {1, 2},
         what \in DOMAIN page => page[what] = Read(Mem, r.addr, r.count)
  PROVE  SameOn(page, r, what)
<1>1. Raw(family, r, Mem) = Read(Mem, r.addr, r.count)
  BY RawIs
<1> QED
  BY <1>1 DEF SameOn, Listed

\* The status block agrees.
LEMMA StatusAgrees ==
  ASSUME NEW r \in SmtStatus PROVE AgreesOn(r)
<1> DEFINE row == <<WhatOf(r), r.addr, r.count>>
<1>1. /\ row \in StatusRows /\ r.type # "string" /\ r.category = "diagnostic"
      /\ r.name \notin Thresholds
  BY StatusShape DEF WhatOf
<1>2. row[1] = WhatOf(r) /\ row[2] = r.addr /\ row[3] = r.count
  OBVIOUS
<1> HIDE DEF row
<1>3. r.addr \in Nat /\ r.count \in {1, 2}
  BY StatusPlaces
<1>4. StatusPage = SmtReadStatus(Mem)
  BY DEF StatusPage, SrtReadStatus
<1>5. WhatOf(r) \in DOMAIN StatusPage =>
        StatusPage[WhatOf(r)] = Read(Mem, r.addr, r.count)
  BY <1>1, <1>2, <1>4, StatusTold
<1>6. SameOn(StatusPage, r, WhatOf(r))
  BY <1>1, <1>3, <1>5, RowRead
<1> QED
  BY <1>1, <1>6 DEF AgreesOn

\* A measurement: a row of the block
IsMeasured(r) ==
  /\ <<r.name[2], r.addr, r.count>> \in Measured
  /\ IsWord(r, r.name[2], r.addr, r.count, "measurement")

\* The readings agree, but for those told apart.
LEMMA DynamicAgrees ==
  ASSUME NEW r, IsMeasured(r) PROVE AgreesOn(r)
<1> DEFINE row == <<r.name[2], r.addr, r.count>>
<1>1. /\ row \in Measured /\ r.type # "string" /\ r.category = "measurement"
      /\ r.name = Unit(r.name[2])
  BY DEF IsMeasured, IsWord
<1>2. row[1] = r.name[2] /\ row[2] = r.addr /\ row[3] = r.count
  OBVIOUS
<1> HIDE DEF row
<1>3. \A x \in Measured : /\ x[2] \in Nat /\ x[3] \in {1, 2}
                         /\ x[1] \notin {"status", "transfer_high", "transfer_low"}
  BY DEF Measured, DynamicRows, TimerRows
<1>4. /\ r.addr \in Nat /\ r.count \in {1, 2}
      /\ r.name[2] \notin {"status", "transfer_high", "transfer_low"}
  BY <1>1, <1>2, <1>3
<1>5. WhatOf(r) = row[1] /\ r.name \notin Thresholds
  BY <1>2, <1>4 DEF WhatOf, Thresholds, Unit
<1> SUFFICES ASSUME ~ToldApart(r) PROVE AgreesOn(r)
  BY DEF AgreesOn
<1>8. Listed(r) = Read(Mem, r.addr, r.count)
  BY <1>1, <1>4, RawIs DEF Listed
<1>9. Read(Mem, r.addr, r.count)[1] = Mem[r.addr]
  BY DEF Read
<1>10. Plain(Mem, row)
  BY <1>2, <1>8, <1>9 DEF Plain, ToldApart
<1>11. ~(Disconnected /\ row[1] \in Dropped)
  BY <1>2 DEF ToldApart
<1> DEFINE d == IF family = "smt" THEN SmtReadDynamic(Mem) ELSE SrtReadDynamic(Mem)
<1>12. row[1] \in DOMAIN d => d[row[1]] = Read(Mem, r.addr, r.count)
  BY <1>1, <1>2, <1>10, DynamicTellsSmt, DynamicTellsSrt
<1>13. DynamicPage = [f \in DOMAIN d |-> IF Disconnected /\ f \in Dropped
                                        THEN [i \in DOMAIN d[f] |-> 0] ELSE d[f]]
  BY DEF DynamicPage
<1> HIDE DEF d
<1>6. row[1] \in DOMAIN DynamicPage =>
        DynamicPage[row[1]] = Read(Mem, r.addr, r.count)
  BY <1>11, <1>12, <1>13
<1>7. SameOn(DynamicPage, r, WhatOf(r))
  BY <1>1, <1>4, <1>5, <1>6, RowRead
<1> QED
  BY <1>1, <1>5, <1>7 DEF AgreesOn

\* What one page alone tells
LEMMA UnpairedAgrees ==
  ASSUME NEW r, r.name[2] \in Unpaired, r.category \in {"measurement", "identity"}
  PROVE  AgreesOn(r)
<1>1. r.name[2] \notin {"status", "transfer_high", "transfer_low"}
  BY DEF Unpaired
<1>2. WhatOf(r) = r.name[2] /\ r.name \notin Thresholds
  BY <1>1 DEF WhatOf, Thresholds, Unit
<1>3. r.name[2] \notin DOMAIN DynamicPage /\ r.name[2] \notin DOMAIN IdentityPage
  BY UnpairedTold DEF DynamicPage, IdentityPage, SrtReadInventory
<1> QED
  BY <1>2, <1>3 DEF AgreesOn, SameOn

\* The identity agrees.
LEMMA InventoryAgrees ==
  ASSUME NEW r \in SmtInventory PROVE AgreesOn(r)
<1>1. PICK row \in TextRows \cup PlainRows :
           /\ r.name = Unit(row[1]) /\ r.addr = row[2] /\ r.count = row[3]
           /\ r.type = "string" <=> row \in TextRows
           /\ r.category = "identity"
  BY InventoryShape
<1>2. row[1] \notin {"status", "transfer_high", "transfer_low"}
  BY DEF TextRows, PlainRows
<1>3. WhatOf(r) = row[1] /\ r.name \notin Thresholds
  BY <1>1, <1>2 DEF WhatOf, Thresholds, Unit
<1>4. IdentityPage = SmtReadInventory(Mem)
  BY DEF IdentityPage, SrtReadInventory
<1>5. CASE row \in TextRows
  <2>1. Words(r, Mem) = [i \in 1..row[3] |-> Mem[row[2] + i - 1]]
    BY <1>1 DEF Words
  <2>2. SameOn(IdentityPage, r, WhatOf(r))
    BY <1>1, <1>3, <1>4, <1>5, <2>1, InventoryTold DEF SameOn, Listed
  <2> QED
    BY <1>1, <1>3, <2>2 DEF AgreesOn
<1>6. CASE row \in PlainRows /\ row \notin TextRows
  <2>1. r.addr \in Nat /\ r.count = 1 /\ r.type # "string"
    BY <1>1, <1>6 DEF PlainRows
  <2>2. Read(Mem, r.addr, r.count) = <<Mem[row[2]]>>
    BY <1>1, <2>1 DEF Read
  <2>3. SameOn(IdentityPage, r, WhatOf(r))
    BY <1>3, <1>4, <1>6, <2>1, <2>2, InventoryTold, RowRead
  <2> QED
    BY <1>1, <1>3, <2>3 DEF AgreesOn
<1> QED
  BY <1>1, <1>5, <1>6

\* The thresholds agree.
LEMMA UnitAgrees ==
  ASSUME UnitKnown, NEW r \in UnitOf(family) PROVE AgreesOn(r)
<1>1. /\ \/ r.category = "config"
         \/ r.category = "identity" /\ r.name[2] = "manufacture_date"
      /\ r.type # "string"
      /\ r.name[2] = "transfer_high" => r.addr = 1026
      /\ r.name[2] = "transfer_low" => r.addr = 1027
  BY UnitKinds DEF UnitKnown
<1>2. r.count = 1 /\ r.addr \in Nat
  BY UnitShape DEF UnitKnown, UnitArea
<1>3. CASE r.name \in Thresholds
  <2>1. r.name[2] \in {"transfer_high", "transfer_low"} /\ WhatOf(r) = r.name[2]
    BY <1>3 DEF Thresholds, Unit, WhatOf
  <2>2. ReadThresholds =
          [transfer_high |-> <<Mem[1026]>>, transfer_low |-> <<Mem[1027]>>]
    BY DEF ReadThresholds, SmtReadThresholds, SrtReadThresholds
  <2>3. ReadThresholds[r.name[2]] = Read(Mem, r.addr, r.count)
    BY <1>1, <1>2, <2>1, <2>2 DEF Read
  <2>4. SameOn(ReadThresholds, r, WhatOf(r))
    BY <1>1, <1>2, <2>1, <2>3, RowRead
  <2>5. r.category = "config"
    BY <1>1, <2>1
  <2> QED
    BY <2>4, <2>5 DEF AgreesOn
<1>4. CASE r.name \notin Thresholds
  <2>1. CASE r.category = "config"
    BY <1>4, <2>1 DEF AgreesOn
  <2>2. CASE r.category = "identity" /\ r.name[2] = "manufacture_date"
    BY <2>2, UnpairedAgrees DEF Unpaired
  <2> QED
    BY <1>1, <2>1, <2>2
<1> QED
  BY <1>3, <1>4

\* Of the other settings there is one account.
LEMMA ConfigAgrees ==
  ASSUME NEW r, r.category = "config", r.name \notin Thresholds PROVE AgreesOn(r)
BY DEF AgreesOn

LEMMA NameAgrees ==
  ASSUME NEW r \in SmtNames PROVE AgreesOn(r)
<1>1. PICK g \in Groups : r = Open(Text(<<g, "name">>, NameAt[g], 8, "config"))
  BY NamePlaces
<1>2. r.category = "config" /\ r.name = <<g, "name">>
  BY <1>1 DEF Open, Text, Register
<1> QED
  BY <1>2, ConfigAgrees DEF Thresholds, Unit

LEMMA OutletAgrees ==
  ASSUME UnitKnown, NEW g \in OutletGroups, NEW r \in OutletOf(family, g)
  PROVE  AgreesOn(r)
<1>1. r.category = "config"
  <2>1. CASE r \in DelaysOf(g)
    <3>1. /\ r.name = <<g, r.name[2]>> /\ r.count = 1 /\ r.category = "config"
          /\ r.type = "scalar" /\ <<r.name[2], g, r.addr>> \in DelayAt
          /\ r = Open(Scalar(<<g, r.name[2]>>, r.addr, 0, 32767))
      BY <2>1, DelayPlaces
    <3> QED
      BY <3>1
  <2>2. CASE r \in LoadShedOf(g)
    BY <2>2, ShedPlaces
  <2>3. CASE \E x \in LoadShedOf(g) : r = Open(x)
    BY <2>3, OpenShed
  <2> QED
    BY <2>1, <2>2, <2>3 DEF OutletOf, SmtOutlet, SrtOutlet
<1>2. r.name = <<g, r.name[2]>>
  <2>1. /\ r.count = 1 /\ r.addr \in 1029..1073
        /\ r.name = <<g, r.name[2]>>
        /\ <<r.name[2], g, r.addr>> \in DelayAt \cup ShedAt
        /\ r = Made(family, r.name, r.addr)
    BY OutletPlaces DEF UnitKnown
  <2> QED
    BY <2>1
<1>3. g # "unit"
  BY OutletGroupsAre
<1>4. r.name[1] # "unit"
  BY <1>2, <1>3
<1>5. r.name \notin Thresholds
  BY <1>4 DEF Thresholds, Unit
<1> QED
  BY <1>1, <1>5, ConfigAgrees

\* A sentinel more or less makes no other reading.
LEMMA MeasuredSmt ==
  ASSUME NEW r \in SmtDynamic
  PROVE  IsMeasured(r) /\ IsMeasured([r EXCEPT !.sentinel = <<>>])
<1>1. IsMeasured(r)
  BY DynamicPlaces DEF IsMeasured, Measured
<1> DEFINE y == [r EXCEPT !.sentinel = <<>>]
<1>2. {"name", "addr", "count", "type", "category"} \subseteq DOMAIN r
  BY <1>1 DEF IsMeasured, IsWord
<1>3. /\ y.addr = r.addr /\ y.count = r.count /\ y.category = r.category
      /\ y.name = r.name /\ y.type = r.type /\ DOMAIN y = DOMAIN r
  BY <1>2
<1> HIDE DEF y
<1>4. IsMeasured(y)
  BY <1>1, <1>3 DEF IsMeasured, IsWord
<1> QED
  BY <1>1, <1>4 DEF y

\* The countdowns of an SMT's outlet groups are told once.
LEMMA CountdownAgrees ==
  ASSUME NEW g \in OutletGroups, NEW r \in SmtCountdowns(g) PROVE AgreesOn(r)
<1>1. r.category = "measurement" /\ r.name[2] \in Unpaired
  BY CountdownPlaces DEF Unpaired
<1> QED
  BY <1>1, UnpairedAgrees

\* An SRT's readings and inventory agree too.
LEMMA SrtDynamicAgrees ==
  ASSUME NEW r \in SrtDynamic PROVE AgreesOn(r)
<1>1. CASE r \in {MayLack(Word("shutdown_timer", 155, "measurement")),
                  MayLack(Word("start_timer", 156, "measurement")),
                  MayLack(Long("reboot_timer", 157, "measurement"))}
  <2>1. PICK row \in TimerRows :
          \/ r = MayLack(Word(row[1], row[2], "measurement")) /\ row[3] = 1
          \/ r = MayLack(Long(row[1], row[2], "measurement")) /\ row[3] = 2
    BY <1>1 DEF TimerRows
  <2>2. row = <<row[1], row[2], row[3]>>
    BY DEF TimerRows
  <2>3. IsWord(r, row[1], row[2], row[3], "measurement")
    BY <2>1 DEF MayLack, Word, Long, Register, IsWord
  <2>4. r.name[2] = row[1] /\ r.addr = row[2] /\ r.count = row[3]
    BY <2>3 DEF IsWord, Unit
  <2>5. IsMeasured(r)
    BY <2>2, <2>3, <2>4 DEF IsMeasured, Measured
  <2> QED
    BY <2>5, DynamicAgrees
<1>2. CASE \E x \in SmtDynamic : r \in {x, [x EXCEPT !.sentinel = <<>>]}
  <2>1. IsMeasured(r)
    BY <1>2, MeasuredSmt
  <2> QED
    BY <2>1, DynamicAgrees
<1> QED
  BY <1>1, <1>2 DEF SrtDynamic

LEMMA SrtInventoryAgrees ==
  ASSUME NEW r \in SrtInventory PROVE AgreesOn(r)
<1>1. CASE r = Text(Unit("external_battery_sku"), 580, 8, "identity")
  <2>1. r.category = "identity" /\ r.name[2] = "external_battery_sku"
    BY <1>1 DEF Text, Register, Unit
  <2> QED
    BY <2>1, UnpairedAgrees DEF Unpaired
<1> QED
  BY <1>1, InventoryAgrees DEF SrtInventory

\* All registers agree.
LEMMA RegisterAgrees ==
  ASSUME UnitKnown, NEW r \in Registers
  PROVE  AgreesOn(r)
<1>1. r \in Present(family, outlets)
  BY RegistersAre
<1>2. r \in SmtDynamic => AgreesOn(r)
  BY MeasuredSmt, DynamicAgrees
<1>3. CASE family = "smt"
  <2>1. \/ r \in SmtUnit \/ r \in SmtStatus \/ r \in SmtDynamic \/ r \in SmtInventory
        \/ r \in SmtNames
        \/ \E g \in OutletGroups : r \in SmtOutlet(g) \/ r \in SmtCountdowns(g)
    BY <1>1, <1>3 DEF Present, SmtRegisters, OutletGroups
  <2>2. r \in SmtUnit => AgreesOn(r)
    BY <1>3, UnitAgrees DEF UnitOf
  <2>3. \A g \in OutletGroups : r \in SmtOutlet(g) => AgreesOn(r)
    BY <1>3, OutletAgrees DEF OutletOf
  <2> QED
    BY <1>2, <2>1, <2>2, <2>3, StatusAgrees, InventoryAgrees, NameAgrees,
       CountdownAgrees
<1>4. CASE family # "smt"
  <2>1. \/ r \in SrtUnit \/ r \in SmtStatus \/ r \in SrtDynamic \/ r \in SrtInventory
        \/ r \in SmtNames
        \/ \E g \in OutletGroups : r \in SrtOutlet(g)
    BY <1>1, <1>4, OutletGroupsAre
       DEF Present, SrtRegisters, SrtStatus, SrtNames
  <2>2. r \in SrtUnit => AgreesOn(r)
    BY <1>4, UnitAgrees DEF UnitOf
  <2>3. \A g \in OutletGroups : r \in SrtOutlet(g) => AgreesOn(r)
    BY <1>4, OutletAgrees DEF OutletOf
  <2> QED
    BY <2>1, <2>2, <2>3, StatusAgrees, SrtDynamicAgrees, SrtInventoryAgrees,
       NameAgrees
<1> QED
  BY <1>3, <1>4

\* Which is what is to be shown.
LEMMA AgreeImplied == UnitKnown => PagesAgree
<1> SUFFICES ASSUME UnitKnown, NEW r \in Registers
             PROVE  LET Same(page, reg, what) ==
                          what \in DOMAIN page => page[what] = Listed(reg)
                        what == IF r.name[2] = "status" THEN r.name[1] ELSE r.name[2]
                    IN \/ ToldApart(r)
                       \/ /\ r.category = "diagnostic" => Same(StatusPage, r, what)
                          /\ r.category = "measurement" => Same(DynamicPage, r, what)
                          /\ r.category = "identity" => Same(IdentityPage, r, what)
                          /\ r.name \in Thresholds => Same(ReadThresholds, r, what)
  BY Zenon DEF PagesAgree
<1> QED
  BY RegisterAgrees, Zenon DEF AgreesOn, SameOn, WhatOf

\* What a page says of a quantity is what /api/about lists (config.c:333-338):
\* for every register of either family and any words, but for the registers
\* told apart, which are negative readings taken as signed, words flagged as
\* not applicable and the readings of a disconnected battery.
THEOREM PagesAlwaysAgree == Spec => []PagesAgree
BY AnswerAlways, AgreeImplied, PTL DEF AnswerInv

-----------------------------------------------------------------------------
(* Types                                                                    *)

\* Every word that may change is one of the unit's.
LEMMA TypeInit == Init => TypeOK
<1> SUFFICES ASSUME Init PROVE TypeOK
  OBVIOUS
<1>1. UnitKnown
  BY AnswerInit DEF AnswerInv
<1>2. ASSUME NEW a \in Varied PROVE a \in DOMAIN Background
  <2>1. ASSUME NEW f \in Families, NEW r \in Present(f, Outlets)
        PROVE  r.addr \in DOMAIN Background
    <3>1. r.addr \in Nat /\ r.count \in Nat \ {0}
      <4>1. InBlock(r) \/ IsUnit(f, r) \/ IsName(r) \/ IsOutlet(f, r)
        BY Kinds
      <4> QED
        BY <4>1 DEF InBlock, IsUnit, IsName, IsOutlet, UnitArea, NameArea
    <3>2. r \in Tables
      BY DEF Present, Tables, Families
    <3>3. r.addr \in r.addr..(r.addr + r.count - 1)
      BY <3>1
    <3> QED
      BY <3>2, <3>3, ConfigAssumption DEF ConfigAssumption
  <2>2. \A r \in Tables : \E f \in Families : r \in Present(f, Outlets)
    BY DEF Tables, Present, Families
  <2>3. ASSUME NEW r \in SmtUnit PROVE r.addr \in DOMAIN Background
    BY <2>1, <2>2 DEF Tables, SmtRegisters
  <2>4. {1026, 1027} \subseteq {r.addr : r \in SmtUnit}
    <3> DEFINE high == Open(Scalar(Unit("transfer_high"), 1026, 110, 150))
               low == Open(Scalar(Unit("transfer_low"), 1027, 80, 120))
    <3>1. high \in SmtUnit /\ low \in SmtUnit
      BY DEF SmtUnit
    <3>2. high.addr = 1026 /\ low.addr = 1027
      BY DEF Open, Scalar, Register
    <3> HIDE DEF high, low
    <3> QED
      BY <3>1, <3>2
  <2>5. a \in {1026, 1027} \cup {r.addr : r \in Tables}
    BY <1>1 DEF Varied, VariedOf, UnitKnown
  <2> QED
    BY <2>1, <2>2, <2>3, <2>4, <2>5
<1>3. words \in [Varied -> 0..(WORD - 1)]
  BY <1>2, ConfigAssumption DEF Init, ConfigAssumption
<1>4. outlets \in OutletSets \cup {Outlets}
  BY DEF Init
<1> QED
  BY <1>1, <1>3, <1>4 DEF Init, TypeOK, UnitKnown

\* A value gets to the wire only when it is a word.
LEMMA TypeStep ==
  ASSUME TypeOK, AnswerInv, [Next]_vars PROVE TypeOK'
<1>1. /\ UNCHANGED ups /\ Settings' = Settings /\ Registers' = Registers
      /\ Varied' = Varied /\ UnitKnown /\ ReqShape
  BY SameUnit, SameSettings DEF AnswerInv, ups, Varied
<1>2. \A c \in Clients : req[c].value \in 0..(WORD - 1)
  BY <1>1 DEF ReqShape
<1>3. ReqShape'
  BY <1>1, ReqStep
<1>4. \A c \in Clients : pc'[c] \in {"write", "readback", "record", "refresh"} =>
                           req'[c].reg \in Registers'
  <2>1. \A r \in Settings : r \in Registers
    BY <1>1, SettingsKnown
  <2> QED
    BY <1>1, <1>3, <2>1 DEF ReqShape, Handled
<1>5. /\ family' \in Families /\ outlets' \in OutletSets \cup {Outlets}
      /\ tracked' \in TrackedSets
  BY <1>1 DEF TypeOK, ups
<1>6. ASSUME NEW addr, NEW value \in 0..(WORD - 1), NEW who, SetWord(addr, value, who)
      PROVE  words' \in [Varied' -> 0..(WORD - 1)]
  BY <1>1, <1>6 DEF SetWord, TypeOK
<1>7. words' \in [Varied' -> 0..(WORD - 1)]
  <2>1. ASSUME UNCHANGED words PROVE words' \in [Varied' -> 0..(WORD - 1)]
    BY <1>1, <2>1 DEF TypeOK
  <2>2. ASSUME NEW c \in Clients, PostWrite(c)
        PROVE  words' \in [Varied' -> 0..(WORD - 1)]
    <3>1. UNCHANGED words \/ SetWord(req[c].reg.addr, req[c].value, "api")
      BY <2>2 DEF PostWrite
    <3> QED
      BY <1>2, <1>6, <2>1, <3>1
  <2>3. ASSUME NEW n \in tracked, NEW value \in Values[n],
               ControlWrite(n, value) \/ PanelSets(n, value)
        PROVE  words' \in [Varied' -> 0..(WORD - 1)]
    <3>1. value \in Nat
      BY <1>1, ConfigAssumption DEF ConfigAssumption, UnitKnown
    <3>2. value < WORD /\ \E addr, who : SetWord(addr, value, who)
      BY <2>3 DEF ControlWrite, PanelSets
    <3>3. value \in 0..(WORD - 1)
      BY <3>1, <3>2, Width
    <3> QED
      BY <1>6, <3>2, <3>3
  <2>4. CASE Snapshot
    BY <2>1, <2>4
       DEF Snapshot, SnapStart, SnapRead, SnapDecide, SnapInsert, SnapDone
  <2>5. CASE UNCHANGED vars
    BY <2>1, <2>5 DEF vars
  <2>6. ASSUME NEW c \in Clients,
               \/ \E n \in tracked : \E value \in Values[n] : Post(c, n, value)
               \/ About(c) \/ Cmd(c) \/ PostInvalid(c) \/ PostReadback(c)
               \/ PostRecord(c) \/ PostRefresh(c) \/ Answered(c)
        PROVE  UNCHANGED words
    BY <2>6
       DEF Post, About, Cmd, PostInvalid, PostReadback, PostRecord,
           PostRefresh, Answered
  <2> QED
    BY <2>1, <2>2, <2>3, <2>4, <2>5, <2>6 DEF Next, Handles
<1> DEFINE Places == {"idle", "write", "readback", "record", "refresh", "about",
                     "command"}
<1>8. pc' \in [Clients -> Places]
  <2>1. ASSUME NEW c \in Clients, NEW where \in Places, Go(c, where)
        PROVE  pc' \in [Clients -> Places]
    BY <2>1 DEF Go, TypeOK
  <2>2. \/ UNCHANGED pc
        \/ \E c \in Clients : \E where \in Places : Go(c, where)
    BY DEF Next, Handles, Post, About, Cmd, PostInvalid, PostWrite,
           PostReadback,
           PostRecord, PostRefresh, Answered, Returns, ControlWrite, PanelSets,
           Snapshot, SnapStart, SnapRead, SnapDecide, SnapInsert, SnapDone, vars, http
  <2> QED
    BY <2>1, <2>2 DEF TypeOK
<1>9. /\ job' \in {"idle", "read", "decide", "baseline", "external"}
      /\ todo' \subseteq Settings' /\ DOMAIN rows' = tracked'
  <2> USE <1>1 DEF TypeOK, ups
  <2>1. CASE SnapStart
    BY <2>1 DEF SnapStart
  <2>2. ASSUME NEW reg \in Settings, SnapRead(reg)
        PROVE  /\ job' \in {"idle", "read", "decide", "baseline", "external"}
               /\ todo' \subseteq Settings' /\ DOMAIN rows' = tracked'
    BY <2>2 DEF SnapRead
  <2>3. CASE SnapDecide
    BY <2>3 DEF SnapDecide, Decision
  <2>4. CASE SnapInsert
    BY <2>4 DEF SnapInsert
  <2>5. CASE SnapDone
    BY <2>5 DEF SnapDone
  <2>6. ASSUME NEW c \in Clients, PostRecord(c)
        PROVE  UNCHANGED snapshot /\ DOMAIN rows' = tracked'
    BY <2>6 DEF PostRecord
  <2>7. ASSUME UNCHANGED <<snapshot, rows>>
        PROVE  /\ job' \in {"idle", "read", "decide", "baseline", "external"}
               /\ todo' \subseteq Settings' /\ DOMAIN rows' = tracked'
    BY <2>7 DEF snapshot
  <2>8. \/ UNCHANGED <<snapshot, rows>>
        \/ Snapshot
        \/ \E c \in Clients : PostRecord(c)
    BY DEF Next, Handles, Post, About, Cmd, PostInvalid, PostWrite,
           PostReadback,
           PostRefresh, Answered, ControlWrite, PanelSets, vars, snapshot
  <2> QED
    BY <2>1, <2>2, <2>3, <2>4, <2>5, <2>6, <2>7, <2>8 DEF Snapshot, snapshot
<1> QED
  BY <1>4, <1>5, <1>7, <1>8, <1>9 DEF TypeOK

\* Every reachable state is well typed: words are words, what is yet to be
\* looked at are settings, and requests are for registers of the unit.
THEOREM ConfigTypeCorrect == Spec => []TypeOK
<1>1. TypeOK /\ AnswerInv /\ [Next]_vars => TypeOK'
  BY TypeStep
<1> QED
  BY <1>1, TypeInit, AnswerAlways, PTL DEF Spec
=============================================================================
