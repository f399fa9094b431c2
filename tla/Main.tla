-------------------------------- MODULE Main --------------------------------
(***************************************************************************)
(* One run of the program, src/src/main.c, on top of what the property     *)
(* calls promise (PropStore, which PropTable implements) and of the list   *)
(* of devices that usense_start() finds.                                   *)
(*                                                                         *)
(*   usense                      lists the devices                         *)
(*   usense <dev>                lists the properties of one               *)
(*   usense <dev> <arg> ...      gets (key) and sets (key=value) in order  *)
(*                                                                         *)
(* <dev> is a name or a number, which counts the devices from 0.           *)
(***************************************************************************)
EXTENDS Integers, Sequences

CONSTANTS
    Key, Value, Protected,  \* of PropStore
    Defaults,               \* the properties of a device that was just opened
    Names,                  \* of the devices that may be found
    CommandLines,           \* [dev, number, args]: argv[1], what strtol() makes
                            \* of all of it or NaN, and the rest; or NoArguments
    MaxFound                \* bound on the devices found

Absent == "absent"
End == -1
NaN == -99
Null == 0               \* the end of the list of devices
Get(k) == [key |-> k, val |-> Absent]
Set(k, v) == [key |-> k, val |-> v]
NoArguments == [dev |-> "none", number |-> NaN, args |-> <<>>]
Argv == [key : Key, val : Value \cup {Absent}]

\* No device has a number for a name: its name is "usb:<bus>.<device>".
ASSUME MainAssumption ==
    /\ Key \subseteq Nat /\ Value \cap {Absent, "ENOENT"} = {}
    /\ Defaults \in [Key -> Value \cup {Absent}]
    /\ MaxFound \in Nat
    /\ \A c \in CommandLines :
          /\ c.number \in Int /\ c.args \in Seq(Argv)
          /\ c.number # NaN => c.dev \notin Names

VARIABLES
    pc,         \* where main() is
    argv,       \* the command line
    list,       \* the names of the listed devices, in the order of the list
    place,      \* where in the list a walk is, or Null
    n,          \* n of nth_device()
    devname, err, status,       \* locals of main() and its result
    printed,    \* lines printed
    done,       \* history: what each argument did: its key, its value or what
                \* was got, and whether it succeeded
    chosen,     \* history: the place in the list of the device opened, or Null
    store, open, answer, at     \* the device, as in PropStore

names == <<argv, list, place, n, devname>>
dev == <<store, open, answer, at>>
vars == <<pc, names, err, status, printed, done, chosen, dev>>

Dev == INSTANCE PropStore

EXIT_SUCCESS == 0
EXIT_FAILURE == 1

Exit(s) == pc' = "exit" /\ status' = s

-----------------------------------------------------------------------------
(* The list of devices.                                                    *)

\* usense_next(): Null, for NULL, is before the first device.  Mutant: the last
\* device is forgotten.
UsenseNextLess(d) == IF d + 1 < Len(list) THEN d + 1 ELSE Null
UsenseNext(d) == IF d < Len(list) THEN d + 1 ELSE Null

\* usense_start() has found some of the devices, which have different names.
Start ==
    /\ pc = "start"
    /\ pc' = IF argv = NoArguments THEN "list"
             ELSE IF argv.number # NaN THEN "nth" ELSE "open"
    /\ place' = UsenseNext(Null)
    /\ n' = argv.number
    /\ devname' = argv.dev
    /\ UNCHANGED <<argv, list, err, status, printed, done, chosen, dev>>

\* list_devices()
ListDevices ==
    /\ pc = "list"
    /\ IF place # Null
       THEN /\ printed' = Append(printed, list[place])
            /\ place' = UsenseNext(place)
            /\ UNCHANGED <<pc, status>>
       ELSE Exit(EXIT_SUCCESS) /\ UNCHANGED <<printed, place>>
    /\ UNCHANGED <<argv, list, n, devname, err, done, chosen, dev>>

\* The loop condition of nth_device().  Mutant: it counts from 1.
CountsOnFromOne == place # Null /\ n > 1
CountsOn == place # Null /\ n > 0

\* nth_device() and what main() does with its result.
NthDevice ==
    /\ pc = "nth"
    /\ IF CountsOn
       THEN place' = UsenseNext(place) /\ n' = n - 1 /\ UNCHANGED <<pc, devname>>
       ELSE /\ pc' = "open"
            /\ devname' = IF place # Null THEN list[place] ELSE argv.dev
            /\ UNCHANGED <<place, n>>
    /\ UNCHANGED <<argv, list, err, status, printed, done, chosen, dev>>

\* usense_open() hands out the first device of that name, or fails.
Open ==
    /\ pc = "open"
    /\ \E d \in 1..Len(list) :
          /\ list[d] = devname
          /\ chosen' = d
    /\ Dev!Hand
    /\ pc' = IF argv.args = <<>> THEN "props" ELSE "args"
    /\ UNCHANGED <<names, err, status, printed, done>>

OpenFails ==
    /\ pc = "open"
    /\ Exit(EXIT_FAILURE)
    /\ UNCHANGED <<names, err, printed, done, chosen, dev>>

-----------------------------------------------------------------------------
(* list_device_props()                                                     *)

PropsFirst ==
    /\ pc = "props"
    /\ Dev!First
    /\ pc' = "show"
    /\ UNCHANGED <<names, err, status, printed, done, chosen>>

PropsShow ==
    /\ pc = "show"
    /\ IF at # End
       THEN /\ Dev!Get(at)
            /\ printed' = IF answer' = "ENOENT" THEN printed
                          ELSE Append(printed, <<at, answer'>>)
            /\ pc' = "next" /\ UNCHANGED status
       ELSE Exit(EXIT_SUCCESS) /\ UNCHANGED <<printed, dev>>
    /\ UNCHANGED <<names, err, done, chosen>>

PropsNext ==
    /\ pc = "next"
    /\ Dev!Walk
    /\ pc' = "show"
    /\ UNCHANGED <<names, err, status, printed, done, chosen>>

-----------------------------------------------------------------------------
(* The loop over the arguments.                                            *)

\* The argument that is executed j-th.  Mutant: the last one first.
ArgumentFromLast(j) == argv.args[Len(argv.args) + 1 - j]
Argument(j) == argv.args[j]

\* err < 0, of an err that show_device_prop() and set_device_prop() make
\* EXIT_FAILURE or EXIT_SUCCESS.  Mutant: any err but success.
NegativeOrFailure(e) == e # EXIT_SUCCESS
Negative(e) == e < 0

Result(arg, ok) ==
    /\ err' = IF ok THEN EXIT_SUCCESS ELSE EXIT_FAILURE
    /\ done' = Append(done, [key |-> arg.key, ok |-> ok,
                             val |-> IF arg.val = Absent THEN answer' ELSE arg.val])
    /\ pc' = IF Negative(err') THEN "close" ELSE "args"

ShowProp(arg) ==
    /\ arg.val = Absent
    /\ Dev!Get(arg.key)
    /\ Result(arg, answer' # "ENOENT")
    /\ printed' = IF answer' = "ENOENT" THEN printed ELSE Append(printed, answer')

SetProp(arg) ==
    /\ arg.val # Absent
    /\ \/ Dev!Set(arg.key, arg.val) /\ Result(arg, TRUE)
       \/ Dev!Refuse /\ Result(arg, FALSE)
    /\ UNCHANGED printed

NextArgument ==
    /\ pc = "args"
    /\ Len(done) < Len(argv.args)
    /\ LET arg == Argument(Len(done) + 1) IN ShowProp(arg) \/ SetProp(arg)
    /\ UNCHANGED <<names, status, chosen>>

ExitStatus(e) == IF Negative(e) THEN EXIT_FAILURE ELSE EXIT_SUCCESS

\* The loop is over; usense_close(), which does nothing, and usense_stop().
Finish ==
    /\ pc = "close" \/ (pc = "args" /\ Len(done) = Len(argv.args))
    /\ Exit(ExitStatus(err))
    /\ UNCHANGED <<names, err, printed, done, chosen, dev>>

-----------------------------------------------------------------------------

Different(l) == \A j, k \in DOMAIN l : l[j] = l[k] => j = k

Init ==
    /\ pc = "start"
    /\ argv \in CommandLines
    /\ \E size \in 0..MaxFound : list \in {l \in [1..size -> Names] : Different(l)}
    /\ place = Null /\ n = NaN /\ devname = "none"
    /\ err = 0 /\ status = EXIT_SUCCESS
    /\ printed = <<>> /\ done = <<>> /\ chosen = Null
    /\ store = Defaults /\ open = FALSE /\ answer = "none" /\ at = End

Next ==
    \/ Start \/ ListDevices \/ NthDevice \/ Open \/ OpenFails
    \/ PropsFirst \/ PropsShow \/ PropsNext \/ NextArgument \/ Finish

Spec == Init /\ [][Next]_vars

\* Nothing in the program waits without a timeout.
FairSpec == Spec /\ WF_vars(Next)

-----------------------------------------------------------------------------
(* Properties.                                                             *)

\* Every variable has its type; err and the result are never negative.
TypeOK ==
    /\ pc \in {"start", "list", "nth", "open", "props", "show", "next", "args", "close", "exit"}
    /\ argv \in CommandLines
    /\ list \in Seq(Names) /\ Different(list)
    /\ place \in 0..Len(list) /\ chosen \in 0..Len(list) /\ n \in Int
    /\ err \in {EXIT_SUCCESS, EXIT_FAILURE} /\ status \in {EXIT_SUCCESS, EXIT_FAILURE}
    /\ done \in Seq([key : Key, ok : BOOLEAN, val : Value \cup {Absent, "ENOENT"}])
    /\ store \in [Key -> Value \cup {Absent}] /\ open \in BOOLEAN
    /\ at \in Key \cup {End}

\* The number N names the device on line N, from 0, of what usense prints
\* without arguments; no other is opened by it.  (main.c:28-55, 126-138)
NumberIsLine ==
    chosen # Null /\ argv.number >= 0 => chosen = argv.number + 1

\* What lists, lists everything once and in order: the devices, or the
\* properties of one with their values.  (main.c:28-37, 58-73, usense.c:433-450)
ListsAll ==
    pc = "exit" =>
        /\ argv = NoArguments => printed = list
        /\ chosen # Null /\ argv.args = <<>> =>
              /\ {printed[j] : j \in DOMAIN printed} = {<<k, store[k]>> : k \in Dev!Keys}
              /\ \A j, k \in DOMAIN printed : j < k => printed[j][1] < printed[k][1]

\* A property that is printed has the value of the last successful setting
\* before it on the command line, and no later one: "Set properties on the
\* command line, *before* the property you want to read" (README:77).
\* (main.c:144-164)
PrintsAsSetBefore ==
    \A j \in DOMAIN done :
        LET arg == argv.args[j]
            sets == {k \in 1..(j - 1) : argv.args[k].key = arg.key
                                        /\ argv.args[k].val # Absent /\ done[k].ok}
        IN  /\ done[j].key = arg.key
            /\ arg.val = Absent /\ done[j].ok =>
                  done[j].val = IF sets = {} THEN Defaults[arg.key]
                                ELSE argv.args[CHOOSE k \in sets :
                                                  \A m \in sets : m <= k].val

\* Only a device that is not opened makes the program fail: a setting that is
\* refused or a property that does not exist does not, unlike what their
\* EXIT_FAILURE suggests.  (main.c:75-101, 152-170)
FailsIfNotOpened ==
    pc = "exit" => (status = EXIT_FAILURE <=> argv # NoArguments /\ chosen = Null)

\* Whatever fails, every argument is executed and the program ends.
\* (main.c:146-164)
EveryArgumentDone ==
    [](chosen # Null => <>(pc = "exit" /\ Len(done) = Len(argv.args)))
=============================================================================
