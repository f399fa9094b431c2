----------------------------- MODULE MainProofs -----------------------------
(***************************************************************************)
(* Theorems about Main, one run of the program: what a number names, what  *)
(* is listed, what a property has when it is printed, and when the program *)
(* fails.  They hold for any devices, properties and command lines.        *)
(***************************************************************************)
EXTENDS Main, SequenceTheorems, TLAPS

Opened == {"props", "show", "next", "args", "close"}

\* What is known of the command line at each place of main().
Control ==
    /\ pc \in {"start", "list", "nth", "open"} => chosen = Null
    /\ pc \in Opened => chosen # Null
    /\ pc = "list" => argv = NoArguments
    /\ pc \in {"nth", "open"} \cup Opened => argv # NoArguments
    /\ pc = "nth" => argv.number # NaN
    /\ pc \in {"props", "show", "next"} => argv.args = <<>>
    /\ pc \in {"args", "close"} => argv.args # <<>>
    /\ chosen # Null => argv # NoArguments
    /\ FailsIfNotOpened

\* The loop of nth_device() keeps place + n, and leaves the list only when the
\* number is not the number of a line.
Counting ==
    /\ pc = "nth" /\ argv.number >= 0 =>
          IF place = Null THEN argv.number >= Len(list)
                          ELSE n >= 0 /\ place + n = argv.number + 1
    /\ pc = "open" /\ argv.number >= 0 =>
          \/ devname \notin Names
          \/ argv.number + 1 \in 1..Len(list) /\ devname = list[argv.number + 1]
    /\ NumberIsLine

\* The lines printed by list_devices(): those of the devices before place.
Prefix(size) == Len(printed) = size /\ \A j \in 1..size : printed[j] = list[j]

\* The lines printed by list_device_props(): the keys of K with their values.
Walked(K) ==
    /\ {printed[j] : j \in DOMAIN printed} = {<<k, store[k]>> : k \in K}
    /\ \A j, k \in DOMAIN printed : j < k => printed[j][1] < printed[k][1]

Printable == Names \cup (Key \X Value) \cup Value

Listing ==
    /\ printed \in Seq(Printable)
    /\ pc \in {"start", "nth", "open", "props"} => printed = <<>>
    /\ pc = "list" => Prefix(IF place = Null THEN Len(list) ELSE place - 1)
    /\ pc = "show" => IF at = End THEN Walked(Dev!Keys)
                      ELSE at \in Dev!Keys /\ Walked({k \in Dev!Keys : k < at})
    /\ pc = "next" => at \in Dev!Keys /\ Walked({k \in Dev!Keys : k <= at})
    /\ ListsAll

\* The successful settings of k among the first m arguments, and what they
\* leave in it.
Sets(k, m) == {j \in 1..m : argv.args[j].key = k /\ argv.args[j].val # Absent /\ done[j].ok}
Latest(S) == CHOOSE j \in S : \A i \in S : i <= j
After(k, m) ==
    IF Sets(k, m) = {} THEN Defaults[k] ELSE argv.args[Latest(Sets(k, m))].val

\* What PrintsAsSetBefore says of the j-th argument.
Right(j) ==
    /\ done[j].key = argv.args[j].key
    /\ argv.args[j].val = Absent /\ done[j].ok =>
          done[j].val = After(argv.args[j].key, j - 1)

Settings ==
    /\ Len(done) <= Len(argv.args)
    /\ \A k \in Key : store[k] = After(k, Len(done))
    /\ PrintsAsSetBefore

Inv == TypeOK /\ Control /\ Counting /\ Listing /\ Settings

-----------------------------------------------------------------------------
(* Types.                                                                  *)

LEMMA InitType == Init => TypeOK
<1> SUFFICES ASSUME Init PROVE TypeOK
  OBVIOUS
<1>1. list \in Seq(Names) /\ Different(list)
  <2>1. PICK size \in 0..MaxFound : list \in {l \in [1..size -> Names] : Different(l)}
    BY DEF Init
  <2>2. size \in Nat
    BY <2>1, MainAssumption
  <2> QED BY <2>1, <2>2
<1>2. Len(list) \in Nat /\ place \in 0..Len(list) /\ chosen \in 0..Len(list)
  BY <1>1 DEF Init, Null
<1>3. pc = "start" /\ argv \in CommandLines /\ n \in Int
  BY DEF Init, NaN
<1>4. err \in {EXIT_SUCCESS, EXIT_FAILURE} /\ status \in {EXIT_SUCCESS, EXIT_FAILURE}
  BY DEF Init, EXIT_SUCCESS, EXIT_FAILURE
<1>5. done \in Seq([key : Key, ok : BOOLEAN, val : Value \cup {Absent, "ENOENT"}])
  BY DEF Init
<1>6. store \in [Key -> Value \cup {Absent}] /\ open \in BOOLEAN /\ at \in Key \cup {End}
  BY MainAssumption DEF Init
<1> QED BY <1>1, <1>2, <1>3, <1>4, <1>5, <1>6 DEF TypeOK

LEMMA PlaceNext ==
    ASSUME TypeOK, NEW d \in 0..Len(list)
    PROVE  /\ UsenseNext(d) \in 0..Len(list)
           /\ UsenseNext(d) = Null <=> d = Len(list)
           /\ UsenseNext(d) # Null => UsenseNext(d) = d + 1
<1>1. Len(list) \in Nat
  BY DEF TypeOK
<1> QED BY <1>1 DEF UsenseNext, Null

LEMMA ArgumentType ==
    ASSUME TypeOK, Len(done) < Len(argv.args)
    PROVE  /\ Argument(Len(done) + 1) \in Argv
           /\ Argument(Len(done) + 1).key \in Key
           /\ Argument(Len(done) + 1).val \in Value \cup {Absent}
<1>1. argv.args \in Seq(Argv) /\ Len(done) \in Nat
  BY MainAssumption DEF TypeOK
<1>2. Len(done) + 1 \in 1..Len(argv.args)
  BY <1>1
<1>3. argv.args[Len(done) + 1] \in Argv
  BY <1>1, <1>2
<1> QED BY <1>3 DEF Argument, Argv

LEMMA AboveType ==
    ASSUME TypeOK, NEW m, Dev!Above(m) PROVE at' \in Key \cup {End}
BY DEF Dev!Above, Dev!Keys, End, Dev!End

\* An argument changes store as its set does, and adds its record to done.
LEMMA ArgumentStep ==
    ASSUME TypeOK, NextArgument
    PROVE  \E ok \in BOOLEAN, val \in Value \cup {Absent, "ENOENT"} :
             LET arg == Argument(Len(done) + 1) IN
             /\ done' = Append(done, [key |-> arg.key, ok |-> ok, val |-> val])
             /\ err' \in {EXIT_SUCCESS, EXIT_FAILURE} /\ pc' = "args"
             /\ \/ /\ arg.val = Absent /\ store' = store
                   /\ ok => val = store[arg.key]
                \/ /\ arg.val # Absent /\ ok
                   /\ store' = [store EXCEPT ![arg.key] = arg.val]
                \/ arg.val # Absent /\ ~ok /\ store' = store
<1> DEFINE arg == Argument(Len(done) + 1)
<1>1. arg \in Argv /\ arg.key \in Key /\ arg.val \in Value \cup {Absent}
  BY ArgumentType DEF NextArgument
<1>2. ShowProp(arg) \/ SetProp(arg)
  BY DEF NextArgument
<1>3. \A e \in {EXIT_SUCCESS, EXIT_FAILURE} : ~Negative(e)
  BY DEF EXIT_SUCCESS, EXIT_FAILURE, Negative
<1>4. CASE ShowProp(arg)
  <2>1. answer' = IF store[arg.key] = Absent THEN "ENOENT" ELSE store[arg.key]
    BY <1>4 DEF ShowProp, Dev!Get, Dev!Absent, Absent
  <2>2. store' = store /\ arg.val = Absent /\ Result(arg, answer' # "ENOENT")
    BY <1>4 DEF ShowProp, Dev!Get
  <2>3. store[arg.key] \in Value \cup {Absent}
    BY <1>1 DEF TypeOK
  <2>4. answer' # "ENOENT" => answer' = store[arg.key]
    BY <2>1
  <2>5. answer' \in Value \cup {Absent, "ENOENT"}
    BY <2>1, <2>3
  <2>6. /\ done' = Append(done, [key |-> arg.key, ok |-> answer' # "ENOENT", val |-> answer'])
        /\ err' \in {EXIT_SUCCESS, EXIT_FAILURE} /\ pc' = "args"
    BY <2>2, <1>3 DEF Result
  <2> QED BY <2>2, <2>4, <2>5, <2>6
<1>5. CASE SetProp(arg)
  <2>1. arg.val # Absent
    BY <1>5 DEF SetProp
  <2>2. CASE Dev!Set(arg.key, arg.val) /\ Result(arg, TRUE)
    <3>1. store' = [store EXCEPT ![arg.key] = arg.val]
      BY <2>2 DEF Dev!Set
    <3>2. /\ done' = Append(done, [key |-> arg.key, ok |-> TRUE, val |-> arg.val])
          /\ err' \in {EXIT_SUCCESS, EXIT_FAILURE} /\ pc' = "args"
      BY <2>1, <2>2, <1>3 DEF Result
    <3> QED BY <1>1, <2>1, <3>1, <3>2
  <2>3. CASE Dev!Refuse /\ Result(arg, FALSE)
    <3>1. store' = store
      BY <2>3 DEF Dev!Refuse
    <3>2. /\ done' = Append(done, [key |-> arg.key, ok |-> FALSE, val |-> arg.val])
          /\ err' \in {EXIT_SUCCESS, EXIT_FAILURE} /\ pc' = "args"
      BY <2>1, <2>3, <1>3 DEF Result
    <3> QED BY <1>1, <2>1, <3>1, <3>2
  <2> QED BY <1>5, <2>2, <2>3 DEF SetProp
<1> QED BY <1>2, <1>4, <1>5

LEMMA NextType == TypeOK /\ [Next]_vars => TypeOK'
<1> SUFFICES ASSUME TypeOK, [Next]_vars PROVE TypeOK'
  OBVIOUS
<1> USE DEF TypeOK
<1>0. argv' = argv /\ list' = list
  BY DEF Next, vars, names, Start, ListDevices, NthDevice, Open, OpenFails,
         PropsFirst, PropsShow, PropsNext, NextArgument, Finish, Exit
<1>1. CASE Start
  <2>1. UsenseNext(Null) \in 0..Len(list)
    BY PlaceNext DEF Null
  <2>2. argv.number \in Int
    BY MainAssumption
  <2> QED BY <1>0, <1>1, <2>1, <2>2 DEF Start, dev
<1>2. CASE ListDevices
  <2>1. UsenseNext(place) \in 0..Len(list)
    BY PlaceNext
  <2> QED BY <1>0, <1>2, <2>1 DEF ListDevices, Exit, dev
<1>3. CASE NthDevice
  <2>1. UsenseNext(place) \in 0..Len(list)
    BY PlaceNext
  <2> QED BY <1>0, <1>3, <2>1 DEF NthDevice, dev
<1>4. CASE Open
  <2>1. /\ chosen' \in 0..Len(list) /\ open' = TRUE /\ store' = store /\ at' = at
        /\ pc' \in {"props", "args"}
        /\ UNCHANGED <<place, n, err, status, done>>
    BY <1>4 DEF Open, names, Dev!Hand
  <2> QED BY <1>0, <2>1
<1>5. CASE OpenFails
  BY <1>0, <1>5 DEF OpenFails, Exit, names, dev
<1>6. CASE PropsFirst
  <2>1. at' \in Key \cup {End} /\ store' = store /\ open' = open
    BY <1>6, AboveType DEF PropsFirst, Dev!First
  <2> QED BY <1>0, <1>6, <2>1 DEF PropsFirst, names
<1>7. CASE PropsShow
  <2>1. store' = store /\ open' = open /\ at' = at
    BY <1>7 DEF PropsShow, Dev!Get, dev
  <2> QED BY <1>0, <1>7, <2>1 DEF PropsShow, names, Exit
<1>8. CASE PropsNext
  <2>1. at' \in Key \cup {End} /\ store' = store /\ open' = open
    BY <1>8, AboveType DEF PropsNext, Dev!Walk
  <2> QED BY <1>0, <1>8, <2>1 DEF PropsNext, names
<1>9. CASE NextArgument
  <2> DEFINE arg == Argument(Len(done) + 1)
  <2>1. arg.key \in Key /\ arg.val \in Value \cup {Absent}
    BY <1>9, ArgumentType DEF NextArgument
  <2>2. PICK ok \in BOOLEAN, val \in Value \cup {Absent, "ENOENT"} :
             /\ done' = Append(done, [key |-> arg.key, ok |-> ok, val |-> val])
             /\ err' \in {EXIT_SUCCESS, EXIT_FAILURE} /\ pc' = "args"
             /\ store' = store \/ (store' = [store EXCEPT ![arg.key] = arg.val])
    BY <1>9, ArgumentStep
  <2>3. done' \in Seq([key : Key, ok : BOOLEAN, val : Value \cup {Absent, "ENOENT"}])
    BY <2>1, <2>2
  <2>4. store' \in [Key -> Value \cup {Absent}]
    BY <2>1, <2>2
  <2>5. open' = open /\ at' = at
    BY <1>9 DEF NextArgument, ShowProp, SetProp, Dev!Get, Dev!Set, Dev!Refuse
  <2> HIDE DEF arg
  <2> QED BY <1>0, <1>9, <2>2, <2>3, <2>4, <2>5 DEF NextArgument, names
<1>10. CASE Finish
  BY <1>0, <1>10 DEF Finish, Exit, ExitStatus, names, dev
<1>11. CASE UNCHANGED vars
  BY <1>11 DEF vars, names, dev
<1> QED BY <1>1, <1>2, <1>3, <1>4, <1>5, <1>6, <1>7, <1>8, <1>9, <1>10, <1>11 DEF Next

-----------------------------------------------------------------------------
(* What a number names, and when the program fails.                        *)

LEMMA InitControl == Init => Control /\ Counting
BY DEF Init, Control, Counting, NumberIsLine, FailsIfNotOpened, Opened, Null

LEMMA NextControl == TypeOK /\ Control /\ [Next]_vars => Control'
<1> SUFFICES ASSUME TypeOK, Control, [Next]_vars PROVE Control'
  OBVIOUS
<1> USE DEF Control, FailsIfNotOpened, Opened
<1>0. argv' = argv /\ list' = list
  BY DEF Next, vars, names, Start, ListDevices, NthDevice, Open, OpenFails,
         PropsFirst, PropsShow, PropsNext, NextArgument, Finish, Exit
<1>1. CASE Start
  BY <1>0, <1>1 DEF Start, NoArguments
<1>2. CASE ListDevices
  <2>1. pc = "list" /\ chosen' = chosen /\ chosen = Null /\ argv = NoArguments
    BY <1>2 DEF ListDevices
  <2>2. pc' = "list" \/ (pc' = "exit" /\ status' = EXIT_SUCCESS)
    BY <1>2, <2>1 DEF ListDevices, Exit
  <2> QED BY <1>0, <2>1, <2>2 DEF EXIT_SUCCESS, EXIT_FAILURE
<1>3. CASE NthDevice
  BY <1>0, <1>3 DEF NthDevice
<1>4. CASE Open
  <2>1. pc = "open" /\ chosen' # Null
    BY <1>4 DEF Open, Null, TypeOK
  <2>2. pc' = IF argv.args = <<>> THEN "props" ELSE "args"
    BY <1>4 DEF Open
  <2> QED BY <1>0, <2>1, <2>2
<1>5. CASE OpenFails
  BY <1>0, <1>5 DEF OpenFails, Exit
<1>6. CASE PropsFirst
  BY <1>0, <1>6 DEF PropsFirst
<1>7. CASE PropsShow
  <2>1. pc = "show" /\ chosen' = chosen
    BY <1>7 DEF PropsShow
  <2>2. pc' = "next" \/ (pc' = "exit" /\ status' = EXIT_SUCCESS)
    BY <1>7 DEF PropsShow, Exit
  <2> QED BY <1>0, <2>1, <2>2 DEF EXIT_SUCCESS, EXIT_FAILURE
<1>8. CASE PropsNext
  BY <1>0, <1>8 DEF PropsNext
<1>9. CASE NextArgument
  <2>1. pc = "args" /\ chosen' = chosen /\ pc' = "args"
    BY <1>9, ArgumentStep DEF NextArgument
  <2> QED BY <1>0, <2>1
<1>10. CASE Finish
  <2>1. /\ pc \in {"close", "args"} /\ chosen' = chosen
        /\ pc' = "exit" /\ status' = ExitStatus(err)
    BY <1>10 DEF Finish, Exit
  <2>2. ExitStatus(err) = EXIT_SUCCESS
    BY DEF TypeOK, ExitStatus, Negative, EXIT_SUCCESS, EXIT_FAILURE
  <2> QED BY <1>0, <2>1, <2>2 DEF EXIT_SUCCESS, EXIT_FAILURE
<1>11. CASE UNCHANGED vars
  BY <1>11 DEF vars, names
<1> QED BY <1>1, <1>2, <1>3, <1>4, <1>5, <1>6, <1>7, <1>8, <1>9, <1>10, <1>11 DEF Next

LEMMA NextCounting == TypeOK /\ Control /\ Counting /\ [Next]_vars => Counting'
<1> SUFFICES ASSUME TypeOK, Control, Counting, [Next]_vars PROVE Counting'
  OBVIOUS
<1> USE DEF Counting, NumberIsLine
<1>0. /\ argv' = argv /\ list' = list /\ Len(list) \in Nat
      /\ argv.number \in Int /\ (argv.number # NaN => argv.dev \notin Names)
  <2>1. argv' = argv /\ list' = list
    BY DEF Next, vars, names, Start, ListDevices, NthDevice, Open, OpenFails,
           PropsFirst, PropsShow, PropsNext, NextArgument, Finish, Exit
  <2> QED BY <2>1, MainAssumption DEF TypeOK
<1>1. CASE Start
  <2>1. Null \in 0..Len(list)
    BY <1>0 DEF Null
  <2>2. /\ UsenseNext(Null) = Null <=> Null = Len(list)
        /\ UsenseNext(Null) # Null => UsenseNext(Null) = 1
    BY <2>1, PlaceNext DEF Null
  <2>3. place' = UsenseNext(Null) /\ n' = argv.number /\ chosen' = chosen /\ chosen = Null
    BY <1>1 DEF Start, Control
  <2>4. pc' = "open" => argv.number = NaN
    BY <1>1 DEF Start
  <2>5. ~ (NaN >= 0)
    BY DEF NaN
  <2> QED BY <1>0, <2>2, <2>3, <2>4, <2>5 DEF Null
<1>3. CASE NthDevice
  <2>1. pc = "nth" /\ chosen' = chosen /\ chosen = Null /\ argv.number # NaN
    BY <1>3 DEF NthDevice, Control
  <2>2. CASE CountsOn
    <3>1. place \in 0..Len(list) /\ place # Null /\ n \in Int /\ n > 0
      BY <2>2 DEF CountsOn, TypeOK
    <3>2. pc' = "nth" /\ place' = UsenseNext(place) /\ n' = n - 1
      BY <1>3, <2>1, <2>2 DEF NthDevice
    <3>3. /\ UsenseNext(place) = Null <=> place = Len(list)
          /\ UsenseNext(place) # Null => UsenseNext(place) = place + 1
      BY <3>1, PlaceNext
    <3> QED BY <1>0, <2>1, <3>1, <3>2, <3>3 DEF Null
  <2>3. CASE ~CountsOn
    <3>1. pc' = "open" /\ devname' = IF place # Null THEN list[place] ELSE argv.dev
      BY <1>3, <2>3 DEF NthDevice
    <3>2. place \in 0..Len(list) /\ n \in Int
      BY DEF TypeOK
    <3>3. CASE place = Null
      BY <1>0, <2>1, <3>1, <3>3
    <3>4. CASE place # Null
      <4>1. argv.number >= 0 => n = 0 /\ place = argv.number + 1
        BY <1>0, <2>1, <2>3, <3>2, <3>4 DEF CountsOn
      <4>2. place \in 1..Len(list)
        BY <1>0, <3>2, <3>4 DEF Null
      <4> QED BY <1>0, <2>1, <3>1, <3>4, <4>1, <4>2
    <3> QED BY <3>3, <3>4
  <2> QED BY <2>2, <2>3
<1>4. CASE Open
  <2>1. PICK d \in 1..Len(list) : list[d] = devname /\ chosen' = d
    BY <1>4 DEF Open
  <2>2. list[d] \in Names
    BY <2>1 DEF TypeOK
  <2>3. argv.number >= 0 => d = argv.number + 1
    BY <1>4, <2>1, <2>2 DEF Open, TypeOK, Different
  <2>4. pc' \in {"props", "args"}
    BY <1>4 DEF Open
  <2> QED BY <1>0, <2>1, <2>3, <2>4
<1>5. ASSUME pc' \notin {"nth", "open"}, chosen' = chosen PROVE Counting'
  BY <1>0, <1>5
<1>6. CASE ListDevices
  BY <1>5, <1>6 DEF ListDevices, Exit
<1>7. CASE OpenFails \/ PropsFirst \/ PropsShow \/ PropsNext \/ Finish
  BY <1>5, <1>7 DEF OpenFails, PropsFirst, PropsShow, PropsNext, Finish, Exit
<1>8. CASE NextArgument
  BY <1>5, <1>8, ArgumentStep DEF NextArgument
<1>9. CASE UNCHANGED vars
  BY <1>9 DEF vars, names
<1> QED BY <1>1, <1>3, <1>4, <1>6, <1>7, <1>8, <1>9 DEF Next

-----------------------------------------------------------------------------
(* What a property has when it is printed.                                 *)

LEMMA RightEach == PrintsAsSetBefore => \A j \in DOMAIN done : Right(j)
BY DEF PrintsAsSetBefore, Right, After, Sets, Latest

LEMMA RightEachNext == (\A j \in DOMAIN done' : Right(j)') => PrintsAsSetBefore'
BY DEF PrintsAsSetBefore, Right, After, Sets, Latest

LEMMA InitSettings == Init => Settings
<1> SUFFICES ASSUME Init PROVE Settings
  OBVIOUS
<1>1. done = <<>> /\ Len(done) = 0 /\ DOMAIN done = {} /\ store = Defaults
  BY DEF Init
<1>2. argv.args \in Seq(Argv)
  BY MainAssumption DEF Init
<1>3. \A k : Sets(k, 0) = {}
  BY DEF Sets
<1> QED BY <1>1, <1>2, <1>3 DEF Settings, After, PrintsAsSetBefore

LEMMA NextSettings == TypeOK /\ Settings /\ [Next]_vars => Settings'
<1> SUFFICES ASSUME TypeOK, Settings, [Next]_vars PROVE Settings'
  OBVIOUS
<1>0. argv' = argv
  BY DEF Next, vars, names, Start, ListDevices, NthDevice, Open, OpenFails,
         PropsFirst, PropsShow, PropsNext, NextArgument, Finish, Exit
<1>1. CASE NextArgument
  <2>a. PICK m \in Nat : m = Len(done)
    BY DEF TypeOK
  <2>b. PICK arg \in Argv : arg = Argument(m + 1)
    BY <1>1, <2>a, ArgumentType DEF NextArgument
  <2>1. PICK ok \in BOOLEAN, val \in Value \cup {Absent, "ENOENT"} :
             /\ done' = Append(done, [key |-> arg.key, ok |-> ok, val |-> val])
             /\ \/ /\ arg.val = Absent /\ store' = store
                   /\ ok => val = store[arg.key]
                \/ /\ arg.val # Absent /\ ok
                   /\ store' = [store EXCEPT ![arg.key] = arg.val]
                \/ arg.val # Absent /\ ~ok /\ store' = store
    BY <1>1, <2>a, <2>b, ArgumentStep
  <2>2. /\ m \in Nat /\ Len(argv.args) \in Nat /\ m < Len(argv.args)
        /\ argv.args[m + 1] = arg /\ arg.key \in Key
    BY <1>1, <2>a, <2>b, ArgumentType, MainAssumption DEF NextArgument, TypeOK, Argument
  <2>3. /\ Len(done') = m + 1 /\ done'[m + 1] = [key |-> arg.key, ok |-> ok, val |-> val]
        /\ \A j \in 1..m : done'[j] = done[j]
        /\ DOMAIN done' = 1..(m + 1) /\ DOMAIN done = 1..m
    BY <2>1, <2>a DEF TypeOK
  <2>4. \A k : \A j \in 0..m : Sets(k, j)' = Sets(k, j)
    <3> SUFFICES ASSUME NEW k, NEW j \in 0..m PROVE Sets(k, j)' = Sets(k, j)
      OBVIOUS
    <3>1. \A i \in 1..j : done'[i] = done[i]
      BY <2>2, <2>3
    <3> QED BY <1>0, <3>1 DEF Sets
  <2>5. \A k : \A j \in 0..m : After(k, j)' = After(k, j)
    BY <1>0, <2>4 DEF After
  <2>6. \A k : Sets(k, m + 1)' = IF arg.key = k /\ arg.val # Absent /\ ok
                                 THEN Sets(k, m) \cup {m + 1} ELSE Sets(k, m)
    <3> SUFFICES ASSUME NEW k
                 PROVE  Sets(k, m + 1)' = IF arg.key = k /\ arg.val # Absent /\ ok
                                          THEN Sets(k, m) \cup {m + 1} ELSE Sets(k, m)
      OBVIOUS
    <3>1. 1..(m + 1) = 1..m \cup {m + 1} /\ m + 1 \notin 1..m
      BY <2>2
    <3>2. m + 1 \in Sets(k, m + 1)' <=> arg.key = k /\ arg.val # Absent /\ ok
      BY <1>0, <2>2, <2>3, <3>1 DEF Sets
    <3>3. \A j \in 1..m : j \in Sets(k, m + 1)' <=> j \in Sets(k, m)
      BY <1>0, <2>3, <3>1 DEF Sets
    <3>4. Sets(k, m + 1)' \subseteq 1..(m + 1) /\ Sets(k, m) \subseteq 1..m
      BY DEF Sets
    <3> DEFINE S == Sets(k, m + 1)'
               T == Sets(k, m)
    <3>5. /\ S \subseteq 1..(m + 1) /\ T \subseteq 1..m
          /\ \A j \in 1..m : j \in S <=> j \in T
          /\ m + 1 \in S <=> arg.key = k /\ arg.val # Absent /\ ok
      BY <3>2, <3>3, <3>4
    <3> HIDE DEF S, T
    <3>6. CASE arg.key = k /\ arg.val # Absent /\ ok
      <4>1. S = T \cup {m + 1}
        BY <3>1, <3>5, <3>6
      <4> QED BY <3>6, <4>1 DEF S, T
    <3>7. CASE ~(arg.key = k /\ arg.val # Absent /\ ok)
      <4>1. S = T
        BY <3>1, <3>5, <3>7
      <4> QED BY <3>7, <4>1 DEF S, T
    <3> QED BY <3>6, <3>7
  <2>7. \A k \in Key : store'[k] = After(k, m + 1)'
    <3> SUFFICES ASSUME NEW k \in Key PROVE store'[k] = After(k, m + 1)'
      OBVIOUS
    <3>1. store[k] = After(k, m)
      BY <2>a DEF Settings
    <3>2. CASE arg.key = k /\ arg.val # Absent /\ ok
      <4> DEFINE S == Sets(k, m + 1)'
      <4>1. S = Sets(k, m) \cup {m + 1} /\ Sets(k, m) \subseteq 1..m
        BY <2>6, <3>2 DEF Sets
      <4>3. m + 1 \in S /\ \A i \in S : i \in 1..(m + 1)
        BY <4>1
      <4> HIDE DEF S
      <4>2. \A j \in S : (\A i \in S : i <= j) <=> j = m + 1
        BY <4>3
      <4>4. Latest(S) = m + 1
        BY <4>2, <4>3 DEF Latest
      <4>5. After(k, m + 1)' = arg.val
        BY <1>0, <2>2, <4>3, <4>4 DEF After, S
      <4>6. store' = [store EXCEPT ![arg.key] = arg.val]
        BY <2>1, <3>2
      <4> QED BY <3>2, <4>5, <4>6 DEF TypeOK
    <3>3. CASE ~(arg.key = k /\ arg.val # Absent /\ ok)
      <4>1. Sets(k, m + 1)' = Sets(k, m)
        BY <2>6, <3>3
      <4>2. After(k, m + 1)' = After(k, m)
        BY <1>0, <4>1 DEF After
      <4>3. store'[k] = store[k]
        BY <2>1, <3>3 DEF TypeOK
      <4> QED BY <3>1, <4>2, <4>3
    <3> QED BY <3>2, <3>3
  <2>8. PrintsAsSetBefore'
    <3>1. \A j \in 1..m : Right(j)
      BY <2>3, RightEach DEF Settings
    <3>2. ASSUME NEW j \in 1..(m + 1) PROVE Right(j)'
      <4>1. j - 1 \in 0..m /\ \A k : After(k, j - 1)' = After(k, j - 1)
        BY <2>2, <2>5
      <4>2. CASE j \in 1..m
        <5>1. Right(j)
          BY <3>1, <4>2
        <5>2. done'[j] = done[j]
          BY <2>3, <4>2
        <5> QED BY <1>0, <4>1, <5>1, <5>2 DEF Right
      <4>3. CASE j = m + 1
        <5>1. After(arg.key, m) = store[arg.key]
          BY <2>2, <2>a DEF Settings
        <5>2. j - 1 = m
          BY <2>2, <4>3
        <5>3. arg.val = Absent /\ ok => val = store[arg.key]
          BY <2>1
        <5> QED BY <1>0, <2>2, <2>3, <4>1, <4>3, <5>1, <5>2, <5>3 DEF Right
      <4> QED BY <2>2, <4>2, <4>3
    <3> QED BY <2>3, <3>2, RightEachNext
  <2>9. Len(done') <= Len(argv.args)
    BY <2>2, <2>3
  <2> QED BY <1>0, <2>3, <2>7, <2>8, <2>9 DEF Settings
<1>2. ASSUME done' = done, store' = store PROVE Settings'
  <2>2. \A k, m : Sets(k, m)' = Sets(k, m)
    BY <1>0, <1>2 DEF Sets
  <2>1. PrintsAsSetBefore'
    <3>1. \A k, m : After(k, m)' = After(k, m)
      BY <1>0, <2>2 DEF After
    <3>2. \A j \in DOMAIN done' : Right(j)'
      BY <1>0, <1>2, <3>1, RightEach DEF Right, Settings
    <3> QED BY <3>2, RightEachNext
  <2>3. \A k \in Key : store'[k] = After(k, Len(done))'
    BY <1>0, <1>2, <2>2 DEF Settings, After
  <2> QED BY <1>0, <1>2, <2>1, <2>3 DEF Settings
<1>3. CASE Start \/ ListDevices \/ NthDevice \/ OpenFails \/ Finish
  BY <1>2, <1>3 DEF Start, ListDevices, NthDevice, OpenFails, Finish, dev
<1>4. CASE Open
  BY <1>2, <1>4 DEF Open, Dev!Hand
<1>5. CASE PropsFirst \/ PropsNext
  BY <1>2, <1>5 DEF PropsFirst, PropsNext, Dev!First, Dev!Walk
<1>6. CASE PropsShow
  BY <1>2, <1>6 DEF PropsShow, Dev!Get, dev
<1>7. CASE UNCHANGED vars
  BY <1>2, <1>7 DEF vars, dev
<1> QED BY <1>1, <1>3, <1>4, <1>5, <1>6, <1>7 DEF Next

-----------------------------------------------------------------------------
(* What is listed.                                                         *)

LEMMA InitListing == Init => Listing
<1> SUFFICES ASSUME Init PROVE Listing
  OBVIOUS
<1>1. printed \in Seq(Printable)
  BY DEF Init
<1> QED BY <1>1 DEF Init, Listing, ListsAll

\* A walk moves to the lowest key above m, or past the last.
LEMMA AboveKeys ==
    ASSUME TypeOK, NEW m \in Int, Dev!Above(m)
    PROVE  \/ /\ at' \in Dev!Keys /\ at' # End
              /\ {k \in Dev!Keys : k < at'} = {k \in Dev!Keys : k <= m}
           \/ at' = End /\ {k \in Dev!Keys : k <= m} = Dev!Keys
<1>1. Dev!Keys \subseteq Nat
  BY MainAssumption DEF Dev!Keys
<1>2. CASE /\ \A k \in Dev!Keys : k <= m
           /\ at' = End
  BY <1>2
<1>3. ASSUME NEW j \in Dev!Keys, j > m, \A i \in Dev!Keys : i > m => i >= j, at' = j
      PROVE  /\ at' \in Dev!Keys /\ at' # End
             /\ {k \in Dev!Keys : k < at'} = {k \in Dev!Keys : k <= m}
  <2>1. j \in Nat /\ \A k \in Dev!Keys : k \in Nat
    BY <1>1, <1>3
  <2>2. \A k \in Dev!Keys : k < j <=> k <= m
    BY <1>3, <2>1
  <2>3. {k \in Dev!Keys : k < j} = {k \in Dev!Keys : k <= m}
    BY <2>2
  <2>4. at' # End
    BY <1>3, <2>1 DEF End
  <2> QED BY <1>3, <2>3, <2>4
<1> QED BY <1>2, <1>3 DEF Dev!Above, End, Dev!End

LEMMA NextListing == TypeOK /\ Control /\ Listing /\ [Next]_vars => Listing'
<1> SUFFICES ASSUME TypeOK, Control, Listing, [Next]_vars PROVE Listing'
  OBVIOUS
<1>0. /\ argv' = argv /\ list' = list /\ Len(list) \in Nat
      /\ Dev!Keys \subseteq Key /\ Key \subseteq Nat
      /\ store' = store => Dev!Keys' = Dev!Keys
  <2>1. argv' = argv /\ list' = list
    BY DEF Next, vars, names, Start, ListDevices, NthDevice, Open, OpenFails,
           PropsFirst, PropsShow, PropsNext, NextArgument, Finish, Exit
  <2> QED BY <2>1, MainAssumption DEF TypeOK, Dev!Keys
<1>1. CASE Start
  <2>1. Null \in 0..Len(list)
    BY <1>0 DEF Null
  <2>2. /\ place' = Null <=> Len(list) = 0
        /\ place' # Null => place' = 1
    BY <1>1, <2>1, PlaceNext DEF Start, Null
  <2>3. /\ pc = "start" /\ pc' \in {"list", "nth", "open"} /\ printed' = printed
        /\ printed = <<>>
    BY <1>1 DEF Start, Listing
  <2>4. Prefix(0)'
    BY <2>3 DEF Prefix
  <2>5. (IF place = Null THEN Len(list) ELSE place - 1)' = 0
    BY <1>0, <2>2
  <2> QED BY <2>3, <2>4, <2>5 DEF Listing, ListsAll
<1>2. CASE ListDevices
  <2>1. pc = "list" /\ argv = NoArguments /\ chosen' = chosen /\ chosen = Null
    BY <1>2 DEF ListDevices, Control
  <2>2. CASE place # Null
    <3>1. place \in 1..Len(list) /\ list[place] \in Names
      BY <1>0, <2>2 DEF TypeOK, Null
    <3>2. pc' = "list" /\ printed' = Append(printed, list[place]) /\ place' = UsenseNext(place)
      BY <1>2, <2>1, <2>2 DEF ListDevices
    <3>3. Prefix(place - 1) /\ printed \in Seq(Printable)
      BY <2>1, <2>2 DEF Listing
    <3>4. printed' \in Seq(Printable)
      BY <3>1, <3>2, <3>3 DEF Printable
    <3>5. /\ Len(printed') = place
          /\ \A j \in 1..place : printed'[j] = list[j]
      BY <1>0, <3>1, <3>2, <3>3 DEF Prefix
    <3>6. (IF place = Null THEN Len(list) ELSE place - 1)' = place
      BY <1>0, <3>1, <3>2, PlaceNext
    <3>7. Prefix(IF place = Null THEN Len(list) ELSE place - 1)'
      BY <1>0, <3>5, <3>6 DEF Prefix
    <3> QED BY <3>2, <3>4, <3>7 DEF Listing, ListsAll
  <2>3. CASE place = Null
    <3>1. pc' = "exit" /\ printed' = printed
      BY <1>2, <2>3 DEF ListDevices, Exit
    <3>2. Prefix(Len(list)) /\ printed \in Seq(Printable)
      BY <2>1, <2>3 DEF Listing
    <3>3. printed = list
      BY <3>2, SeqEqual DEF Prefix, TypeOK
    <3> QED BY <1>0, <2>1, <3>1, <3>2, <3>3 DEF Listing, ListsAll
  <2> QED BY <2>2, <2>3
<1>3. CASE NthDevice
  <2>1. pc = "nth" /\ pc' \in {"nth", "open"} /\ printed' = printed
    BY <1>3 DEF NthDevice
  <2> QED BY <2>1 DEF Listing, ListsAll
<1>4. CASE Open
  <2>1. pc = "open" /\ pc' \in {"props", "args"} /\ printed' = printed
    BY <1>4 DEF Open, names
  <2> QED BY <2>1 DEF Listing, ListsAll
<1>5. CASE OpenFails
  <2>1. /\ pc = "open" /\ pc' = "exit" /\ printed' = printed
        /\ chosen' = chosen /\ chosen = Null /\ argv # NoArguments
    BY <1>5 DEF OpenFails, Exit, Control
  <2> QED BY <1>0, <2>1 DEF Listing, ListsAll
<1>6. CASE PropsFirst
  <2>1. /\ pc = "props" /\ pc' = "show" /\ printed' = printed /\ printed = <<>>
        /\ Dev!Above(End) /\ store' = store
    BY <1>6 DEF PropsFirst, Dev!First, Listing, End, Dev!End
  <2>2. {k \in Dev!Keys : k <= End} = {}
    <3>1. \A k \in Dev!Keys : k \in Nat
      BY <1>0
    <3> QED BY <3>1 DEF End
  <2>3. End \in Int
    BY DEF End
  <2>4. \/ at' \in Dev!Keys /\ at' # End /\ {k \in Dev!Keys : k < at'} = {}
        \/ at' = End /\ Dev!Keys = {}
    BY <2>1, <2>2, <2>3, AboveKeys
  <2>5. Walked({})'
    BY <2>1 DEF Walked
  <2>6. /\ at' = End => Dev!Keys' = {}
        /\ at' # End => at' \in Dev!Keys' /\ {k \in Dev!Keys : k < at}' = {}
    BY <1>0, <2>1, <2>4
  <2> QED BY <2>1, <2>5, <2>6 DEF Listing, ListsAll
<1>7. CASE PropsShow
  <2>1. pc = "show" /\ chosen' = chosen /\ argv # NoArguments
    BY <1>7 DEF PropsShow, Control, Opened
  <2>2. CASE at = End
    <3>1. pc' = "exit" /\ printed' = printed /\ store' = store
      BY <1>7, <2>2 DEF PropsShow, Exit, dev
    <3>2. Walked(Dev!Keys) /\ printed \in Seq(Printable)
      BY <2>1, <2>2 DEF Listing
    <3> QED BY <1>0, <2>1, <3>1, <3>2 DEF Listing, ListsAll, Walked
  <2>3. CASE at # End
    <3>1. at \in Dev!Keys /\ Walked({k \in Dev!Keys : k < at}) /\ printed \in Seq(Printable)
      BY <2>1, <2>3 DEF Listing
    <3>2. store[at] \in Value /\ at \in Key /\ store[at] # "ENOENT"
      BY <3>1, MainAssumption DEF TypeOK, Dev!Keys, Absent, Dev!Absent
    <3>3. answer' = store[at] /\ store' = store /\ at' = at
      BY <1>7, <2>3, <3>1 DEF PropsShow, Dev!Get, Dev!Keys
    <3>4. pc' = "next" /\ printed' = Append(printed, <<at, store[at]>>)
      BY <1>7, <2>3, <3>2, <3>3 DEF PropsShow
    <3>5. printed' \in Seq(Printable)
      BY <3>1, <3>2, <3>4 DEF Printable
    <3> DEFINE L == Len(printed)
    <3>6. /\ L \in Nat /\ DOMAIN printed = 1..L /\ DOMAIN printed' = 1..(L + 1)
          /\ \A j \in 1..L : printed'[j] = printed[j]
          /\ printed'[L + 1] = <<at, store[at]>>
      BY <3>1, <3>4
    <3> HIDE DEF L
    <3>7. \A j \in 1..L : printed[j][1] < at
      <4> SUFFICES ASSUME NEW j \in 1..L PROVE printed[j][1] < at
        OBVIOUS
      <4>1. printed[j] \in {<<k, store[k]>> : k \in {i \in Dev!Keys : i < at}}
        BY <3>1, <3>6 DEF Walked
      <4> QED BY <4>1
    <3>8. ASSUME NEW j \in DOMAIN printed', NEW k \in DOMAIN printed', j < k
          PROVE  printed'[j][1] < printed'[k][1]
      <4>1. j \in 1..L /\ (k \in 1..L \/ k = L + 1)
        BY <3>6, <3>8
      <4>2. CASE k \in 1..L
        BY <3>1, <3>6, <3>8, <4>1, <4>2 DEF Walked
      <4>3. CASE k = L + 1
        BY <3>6, <3>7, <4>1, <4>3
      <4> QED BY <4>1, <4>2, <4>3
    <3>9. {printed'[j] : j \in DOMAIN printed'}
            = {<<k, store[k]>> : k \in {i \in Dev!Keys : i <= at}}
      <4>1. {i \in Dev!Keys : i <= at} = {i \in Dev!Keys : i < at} \cup {at}
        <5>1. at \in Nat /\ \A i \in Dev!Keys : i \in Nat
          BY <1>0, <3>1
        <5>2. \A i \in Dev!Keys : i <= at <=> i < at \/ i = at
          BY <5>1
        <5>3. at \in Dev!Keys
          BY <3>1
        <5> QED BY <5>1, <5>2, <5>3
      <4>2. {printed'[j] : j \in DOMAIN printed'}
              = {printed[j] : j \in DOMAIN printed} \cup {<<at, store[at]>>}
        <5>1. 1..(L + 1) = 1..L \cup {L + 1}
          BY <3>6
        <5> QED BY <3>6, <5>1
      <4>3. {printed[j] : j \in DOMAIN printed}
              = {<<k, store[k]>> : k \in {i \in Dev!Keys : i < at}}
        BY <3>1 DEF Walked
      <4> QED BY <4>1, <4>2, <4>3
    <3>10. Walked({k \in Dev!Keys : k <= at})'
      BY <1>0, <3>3, <3>8, <3>9 DEF Walked
    <3> QED BY <1>0, <3>1, <3>3, <3>4, <3>5, <3>10 DEF Listing, ListsAll
  <2> QED BY <2>2, <2>3
<1>8. CASE PropsNext
  <2>1. /\ pc = "next" /\ pc' = "show" /\ printed' = printed
        /\ Dev!Above(at) /\ store' = store
    BY <1>8 DEF PropsNext, Dev!Walk
  <2>2. at \in Dev!Keys /\ Walked({k \in Dev!Keys : k <= at}) /\ printed \in Seq(Printable)
    BY <2>1 DEF Listing
  <2>3. \/ at' \in Dev!Keys /\ at' # End
           /\ {k \in Dev!Keys : k < at'} = {k \in Dev!Keys : k <= at}
        \/ at' = End /\ {k \in Dev!Keys : k <= at} = Dev!Keys
    BY <1>0, <2>1, <2>2, AboveKeys
  <2>4. \A K : Walked(K) => Walked(K)'
    BY <2>1 DEF Walked
  <2>5. CASE at' = End
    <3>1. Walked(Dev!Keys)'
      BY <1>0, <2>1, <2>2, <2>3, <2>5 DEF Walked, Dev!Keys
    <3> QED BY <2>1, <2>2, <2>5, <3>1 DEF Listing, ListsAll
  <2>6. CASE at' # End
    <3>1. at' \in Dev!Keys' /\ {k \in Dev!Keys : k < at}' = {k \in Dev!Keys : k <= at}
      BY <1>0, <2>1, <2>3, <2>6
    <3>2. Walked({k \in Dev!Keys : k < at})'
      BY <2>1, <2>2, <3>1 DEF Walked
    <3> QED BY <2>1, <2>2, <2>6, <3>1, <3>2 DEF Listing, ListsAll
  <2> QED BY <2>5, <2>6
<1>9. CASE NextArgument
  <2> DEFINE arg == Argument(Len(done) + 1)
  <2>1. pc' = "args"
    BY <1>9, ArgumentStep
  <2>2. arg.key \in Key /\ (ShowProp(arg) \/ SetProp(arg))
    BY <1>9, ArgumentType DEF NextArgument
  <2>3. CASE SetProp(arg)
    BY <2>1, <2>3 DEF SetProp, Listing, ListsAll
  <2>4. CASE ShowProp(arg)
    <3>1. answer' = "ENOENT" \/ answer' \in Value
      BY <2>2, <2>4 DEF ShowProp, Dev!Get, TypeOK, Absent, Dev!Absent
    <3>2. printed' = printed \/ (answer' \in Value /\ printed' = Append(printed, answer'))
      BY <2>4, <3>1 DEF ShowProp
    <3>3. printed' \in Seq(Printable)
      BY <3>2 DEF Listing, Printable
    <3> QED BY <2>1, <3>3 DEF Listing, ListsAll
  <2> QED BY <2>2, <2>3, <2>4
<1>10. CASE Finish
  <2>1. /\ pc \in {"close", "args"} /\ pc' = "exit" /\ printed' = printed
        /\ argv # NoArguments /\ argv.args # <<>>
    BY <1>10 DEF Finish, Exit, Control, Opened
  <2> QED BY <1>0, <2>1 DEF Listing, ListsAll
<1>11. CASE UNCHANGED vars
  BY <1>11 DEF vars, names, dev, Listing, ListsAll, Walked, Prefix, Dev!Keys
<1> QED BY <1>1, <1>2, <1>3, <1>4, <1>5, <1>6, <1>7, <1>8, <1>9, <1>10, <1>11 DEF Next

-----------------------------------------------------------------------------
(* Theorems.                                                               *)

LEMMA Invariant == Spec => []Inv
<1>1. Init => Inv
  BY InitType, InitControl, InitListing, InitSettings DEF Inv
<1>2. Inv /\ [Next]_vars => Inv'
  BY NextType, NextControl, NextCounting, NextListing, NextSettings DEF Inv
<1> QED BY <1>1, <1>2, PTL DEF Spec

\* Every variable of the program has its type; err is never negative, so that
\* no argument ends the loop early.  (main.c:144-168)
THEOREM TypeCorrect == Spec => []TypeOK
<1>1. Inv => TypeOK
  BY DEF Inv
<1> QED BY <1>1, Invariant, PTL

\* The number N opens the device on line N of the list, or none, however many
\* devices there are and whatever they are called.  (main.c:39-55, 126-138)
THEOREM NumbersAreLines == Spec => []NumberIsLine
<1>1. Inv => NumberIsLine
  BY DEF Inv, Counting
<1> QED BY <1>1, Invariant, PTL

\* Both listings are complete, in order and without repetition.
\* (main.c:28-37, 58-73)
THEOREM ListingsAreComplete == Spec => []ListsAll
<1>1. Inv => ListsAll
  BY DEF Inv, Listing
<1> QED BY <1>1, Invariant, PTL

\* A property that is printed has what the last successful setting before it on
\* the command line gave it, for command lines of any length.  (main.c:144-164)
THEOREM PrintsFollowSettings == Spec => []PrintsAsSetBefore
<1>1. Inv => PrintsAsSetBefore
  BY DEF Inv, Settings
<1> QED BY <1>1, Invariant, PTL

\* The program fails if and only if a device was named and none opened; an
\* argument that fails does not make it fail.  (main.c:75-101, 134-138, 168)
THEOREM FailsOnlyUnopened == Spec => []FailsIfNotOpened
<1>1. Inv => FailsIfNotOpened
  BY DEF Inv, Control
<1> QED BY <1>1, Invariant, PTL
=============================================================================
