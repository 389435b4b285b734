-------------------------------- MODULE Tty --------------------------------
(***************************************************************************)
(* The character devices: kernel/tty_io.c between the tasks that read and  *)
(* write a line and the interrupts that fill and drain its queues.         *)
(*                                                                         *)
(*   keyboard -> read_q -> copy_to_cooked -> secondary -> tty_read         *)
(*                              | echo                                     *)
(*   tty_write -------------> write_q -> con_write, or the transmitter     *)
(*                                                                         *)
(* Line "con" is the console, whose write routine empties write_q on the   *)
(* spot; line "rs" is a serial line, whose write routine only turns the    *)
(* transmitter interrupt on.                                               *)
(*                                                                         *)
(* Tasks and activations of the keyboard handler are parties of one kind,  *)
(* and their steps interleave freely.  The handler is behind a trap gate   *)
(* and acknowledges its interrupt before it calls do_tty_interrupt: the    *)
(* next key may come inside it, and a tick may set it aside with whatever  *)
(* process it interrupted, one that has nothing to do with a tty included. *)
(* The serial handler is behind an interrupt gate and is one step.  So is  *)
(* what a task does under a cli of its own, up to schedule(); what follows *)
(* schedule() is not, as the interrupt flag is not kept over the switch.   *)
(*                                                                         *)
(* A ring is what lies between its tail and its head: a sequence for the   *)
(* input, a number for a write_q, as what a character looks like on the    *)
(* way out is left out.  A key stands for the character that c_iflag makes *)
(* of it.  A run is followed until a ring of the input is overrun: what    *)
(* such a ring holds then is old characters, and the handlers may take     *)
(* them for ever.                                                          *)
(***************************************************************************)
EXTENDS Integers, Sequences, SequencesExt, FiniteSets

CONSTANTS Task, Handler,  \* processes; activations of keyboard_interrupt
          Settings,       \* termios that an ioctl may set
          BufSize,        \* TTY_BUF_SIZE
          Slack,          \* the 20 of tty_read
          Roomy,          \* the 128 of sleep_if_full
          Startup,        \* 256 in rs_io: few enough left to wake the writer
          MaxCount,       \* bytes of one read or write
          Workload        \* bounds: a run follows one of these loads

\* A character is one of its own, a control character, newline or delete.
Char    == {"a", "nl", "DEL", "^C", "^D", "^S"}
Control == {"nl", "^C", "^D", "^S"}
Termios == [canon : BOOLEAN, echo : BOOLEAN, echoctl : BOOLEAN, isig : BOOLEAN,
            VERASE : Char, VSTOP : Char, VINTR : Char, VEOF : Char]
\* How many keys of which kinds are typed, how many handlers are nested at most,
\* and how many reads, writes and ioctls are started.
Load    == [kinds : SUBSET Char, keys : Nat, nested : Nat, reads : Nat, writes : Nat,
            ioctls : Nat]

ASSUME TtyAssumption ==
    /\ BufSize \in Nat /\ BufSize > 2 /\ MaxCount \in Nat \ {0}
    /\ Slack \in 0..BufSize-1 /\ Roomy \in 1..BufSize-1
    /\ Startup \in 0..BufSize-1-Roomy
    /\ Workload \subseteq Load /\ Settings \subseteq Termios

None  == "none"
Line  == {"con", "rs"}
Queue == {"sec", "con", "rs"}          \* the queues that tasks sleep on
Party == Task \cup Handler

VARIABLES
    tio, pgrp,           \* termios of the console, and whether pgrp > 0
    read_q, sec,         \* raw and cooked input, oldest first
    data,                \* secondary.data, a count of line ends
    chars,               \* chars[l] = CHARS(write_q) of line l
    thre,                \* the transmitter interrupt of "rs" is on
    proc_list,           \* proc_list[q], head of the sleepers of q
    pc, loc,             \* per party: step, arguments and local variables
    tmp, awake, signal,  \* per task: tmp of the sleep, state = 0, a signal
    cr_flag,             \* the static flag of tty_write
    load,                \* what is left of the load
    lapped,              \* history: rings whose tail and head passed
    raced,               \* history: rings used by two parties at once
    overtaken,           \* history: a sleeper went back to sleep unlinked
    cut,                 \* history: chains changed in somebody's window
    shifted              \* history: VEOF changed over queued characters

ring  == <<read_q, sec, data, chars, lapped, raced>>
chain == <<proc_list, tmp, awake, overtaken, cut>>
mode  == <<tio, pgrp, shifted>>
misc  == <<thre, signal, cr_flag, load>>
vars  == <<ring, chain, mode, misc, pc, loc>>

-----------------------------------------------------------------------------
(* tty.h: the ring of a queue *)

LEFT(q)  == BufSize - 1 - Len(q)
EMPTY(q) == q = <<>>
FULL(q)  == LEFT(q) = 0
\* Beyond an empty ring lies some old character.
GETCH(q) == IF EMPTY(q) THEN "a" ELSE q[1]
Taken(q) == IF EMPTY(q) THEN q ELSE Tail(q)

Room(l) == BufSize - 1 - chars[l]
Ends == {"nl", tio.VEOF}               \* counted in secondary.data

\* What a party has at hand: the line, bytes still to move, what con_write
\* has still to take, a character or task it has read, and where it goes on
\* after con_write.
NoCall == [line |-> "con", op |-> "r", nr |-> 0, todo |-> 0, c |-> None, then |-> None]

At(p, S) == pc[p] \in S
Goto(p, l, x) ==
    /\ pc' = [pc EXCEPT ![p] = l]
    /\ loc' = [loc EXCEPT ![p] = IF l \in {"user", "off"} THEN NoCall ELSE x]

\* Who else is between looking at a ring and what it does with what it saw.
Inside(r, p) ==
    {u \in Party \ {p} :
       CASE r = "read" -> At(u, {"take"})
         [] r = "sec"  -> At(u, {"take", "get", "store", "dec"})
                          \/ (At(u, {"echo", "count", "drain"}) /\ u \in Handler)
         [] OTHER      -> At(u, {"fill", "put", "count", "drain"}) /\ loc[u].line = r}

Starts(k) == load[k] > 0 /\ load' = [load EXCEPT ![k] = @ - 1]

Laps(r, over) == lapped' = lapped \cup (IF over THEN {r} ELSE {})
Races(r, S)   == raced' = raced \cup (IF S # {} THEN {r} ELSE {})

-----------------------------------------------------------------------------
(* copy_to_cooked, statement by statement *)

\* keyboard_interrupt: put_queue leaves head alone when read_q is full; a key
\* without a character still gets to do_tty_interrupt.
KeyboardInterrupt(h) ==
    /\ pc[h] = "off" /\ Starts("keys")
    /\ Cardinality({g \in Handler : pc[g] # "off"}) < load.nested
    /\ \E k \in load.kinds \cup {None} :
         read_q' = IF k = None \/ FULL(read_q) THEN read_q ELSE Append(read_q, k)
    /\ Goto(h, "cook", NoCall)
    /\ UNCHANGED <<sec, data, chars, lapped, raced, chain, mode, thre, signal, cr_flag>>


\* The test of the loop.
Cook(h) ==
    /\ pc[h] = "cook"
    /\ Goto(h, IF EMPTY(read_q) \/ FULL(sec) THEN "wake" ELSE "take", NoCall)
    /\ UNCHANGED <<ring, chain, mode, misc>>

\* On with c: the echo comes first, then l.
Onward(h, c, l) ==
    Goto(h, IF tio.echo THEN "echo" ELSE l, [NoCall EXCEPT !.c = c, !.then = l])

\* Mutant: a line end is erased like any other character.
EraseAny(h) ==
    IF EMPTY(sec) THEN Goto(h, "cook", NoCall) ELSE Onward(h, Last(sec), "dec")

Erase(h) ==
    IF EMPTY(sec) \/ Last(sec) \in Ends THEN Goto(h, "cook", NoCall)
    ELSE Onward(h, Last(sec), "dec")

\* GETCH and the tests of the character.  INTR is looked at when ISIG is off.
Take(h) ==
    LET c == GETCH(read_q)
        erases == tio.canon /\ c = tio.VERASE
        stops  == tio.canon /\ ~erases /\ c = tio.VSTOP
        kills  == ~erases /\ ~stops /\ ~tio.isig /\ c = tio.VINTR
        plain  == ~erases /\ ~stops /\ ~kills
    IN /\ pc[h] = "take"
       /\ read_q' = Taken(read_q)
       /\ Laps("read", EMPTY(read_q)) /\ Races("read", Inside("read", h))
       /\ \/ erases /\ Erase(h)
          \/ (stops \/ kills) /\ Goto(h, "cook", NoCall)
          \/ plain /\ Onward(h, c, "store")
       /\ data' = IF plain /\ c \in Ends THEN data + 1 ELSE data
       /\ signal' = [t \in Task |-> signal[t] \/ (kills /\ pgrp)]
       /\ UNCHANGED <<sec, chars, chain, mode, thre, cr_flag, load>>

\* PUTCH into write_q, of one or two characters, without a look at its room.
Echo(h) ==
    LET c == loc[h].c
        n == CASE c \notin Control -> 1
               [] c = "nl" \/ loc[h].then = "dec" \/ tio.echoctl -> 2
               [] OTHER -> 0
    IN /\ pc[h] = "echo"
       /\ chars' = [chars EXCEPT !["con"] = (@ + n) % BufSize]
       /\ Laps("con", Room("con") < n) /\ Races("con", Inside("con", h))
       /\ Goto(h, "count", loc[h])
       /\ UNCHANGED <<read_q, sec, data, chain, mode, misc>>

\* PUTCH into the secondary queue.
Store(h) ==
    /\ pc[h] = "store"
    /\ sec' = Append(sec, loc[h].c)
    /\ Laps("sec", FULL(sec)) /\ Races("sec", Inside("sec", h) \cap Handler)
    /\ Goto(h, "cook", NoCall)
    /\ UNCHANGED <<read_q, data, chars, chain, mode, misc>>

\* DEC of its head: the last character is erased.
Dec(h) ==
    /\ pc[h] = "dec"
    /\ sec' = IF EMPTY(sec) THEN sec ELSE Front(sec)
    /\ Laps("sec", EMPTY(sec)) /\ Races("sec", Inside("sec", h))
    /\ Goto(h, "cook", NoCall)
    /\ UNCHANGED <<read_q, data, chars, chain, mode, misc>>

-----------------------------------------------------------------------------
(* con_write, called by the echo and by tty_write *)

\* How much there is to take.
Count(p) ==
    /\ pc[p] = "count"
    /\ Goto(p, IF chars["con"] = 0 THEN loc[p].then ELSE "drain",
            [loc[p] EXCEPT !.todo = chars["con"]])
    /\ UNCHANGED <<ring, chain, mode, misc>>

\* As many GETCH, whatever the queue holds by now.
ConWrite(p) ==
    /\ pc[p] = "drain"
    /\ chars' = [chars EXCEPT !["con"] = (@ - loc[p].todo) % BufSize]
    /\ Laps("con", chars["con"] < loc[p].todo) /\ Races("con", Inside("con", p))
    /\ Goto(p, loc[p].then, [loc[p] EXCEPT !.todo = 0])
    /\ UNCHANGED <<read_q, sec, data, chain, mode, misc>>

-----------------------------------------------------------------------------
(* interruptible_sleep_on and wake_up *)

SleptOn(t) == IF loc[t].op = "r" THEN "sec" ELSE loc[t].line
QueueOf(p) == IF p \in Handler THEN "sec" ELSE SleptOn(p)

\* Who else is between two accesses to the chain of q.
Window(q, p) ==
    {u \in Party \ {p} :
       At(u, {"link", "lead", "mark", "pass", "unlink", "rouse", "forget"}) /\ QueueOf(u) = q}

Cuts(q, p) == cut' = cut \cup (IF Window(q, p) # {} THEN {q} ELSE {})

\* Entered with interrupts off: one step up to schedule().
Sleep(t) ==
    LET q == SleptOn(t) IN
    /\ tmp' = [tmp EXCEPT ![t] = proc_list[q]]
    /\ proc_list' = [proc_list EXCEPT ![q] = t]
    /\ awake' = [awake EXCEPT ![t] = FALSE]
    /\ Cuts(q, t) /\ Goto(t, "asleep", loc[t])
    /\ UNCHANGED overtaken

\* Entered again after a first sleep, statement by statement.
Link(t) ==
    /\ pc[t] = "link"
    /\ tmp' = [tmp EXCEPT ![t] = proc_list[SleptOn(t)]]
    /\ Goto(t, "lead", loc[t])
    /\ UNCHANGED <<ring, proc_list, awake, overtaken, cut, mode, misc>>

Lead(t) ==
    /\ pc[t] = "lead"
    /\ proc_list' = [proc_list EXCEPT ![SleptOn(t)] = t]
    /\ Cuts(SleptOn(t), t) /\ Goto(t, "mark", loc[t])
    /\ UNCHANGED <<ring, tmp, awake, overtaken, mode, misc>>

Mark(t) ==
    /\ pc[t] = "mark"
    /\ awake' = [awake EXCEPT ![t] = FALSE]
    /\ Goto(t, "asleep", loc[t])
    /\ UNCHANGED <<ring, proc_list, tmp, overtaken, cut, mode, misc>>

\* schedule() returns, by a wake-up or because of a signal, and *p is read.
Resume(t) ==
    LET p == proc_list[SleptOn(t)] IN
    /\ pc[t] = "asleep" /\ (awake[t] \/ signal[t])
    /\ awake' = [awake EXCEPT ![t] = TRUE]
    /\ Goto(t, IF p \in {None, t} THEN "unlink" ELSE "pass", [loc[t] EXCEPT !.c = p])
    /\ UNCHANGED <<ring, proc_list, tmp, overtaken, cut, mode, misc>>

\* Somebody came later: it is woken, and t sleeps again, not linked any more.
Pass(t) ==
    /\ pc[t] = "pass"
    /\ awake' = [awake EXCEPT ![loc[t].c] = TRUE]
    /\ overtaken' = TRUE
    /\ Goto(t, "mark", [loc[t] EXCEPT !.c = None])
    /\ UNCHANGED <<ring, proc_list, tmp, cut, mode, misc>>

Unlink(t) ==
    /\ pc[t] = "unlink"
    /\ proc_list' = [proc_list EXCEPT ![SleptOn(t)] = None]
    /\ Cuts(SleptOn(t), t)
    /\ Goto(t, "passon", [loc[t] EXCEPT !.c = None])
    /\ UNCHANGED <<ring, tmp, awake, overtaken, mode, misc>>

\* Mutant: the next sleeper of the chain is not woken.
PassOnNothing(t) ==
    /\ pc[t] = "passon"
    /\ tmp' = [tmp EXCEPT ![t] = None]
    /\ Goto(t, "retest", loc[t])
    /\ UNCHANGED <<ring, proc_list, awake, overtaken, cut, mode, misc>>

PassOn(t) ==
    /\ pc[t] = "passon"
    /\ awake' = [u \in Task |-> awake[u] \/ u = tmp[t]]
    /\ tmp' = [tmp EXCEPT ![t] = None]
    /\ Goto(t, "retest", loc[t])
    /\ UNCHANGED <<ring, proc_list, overtaken, cut, mode, misc>>

\* The loops of sleep_if_empty and sleep_if_full.
Retest(t) ==
    LET waits == IF loc[t].op = "r" THEN EMPTY(sec) ELSE Room(loc[t].line) < Roomy IN
    /\ pc[t] = "retest"
    /\ Goto(t, CASE signal[t]        -> "user"
                 [] waits            -> "link"
                 [] loc[t].op = "r"  -> "read"
                 [] OTHER            -> "fill", loc[t])
    /\ UNCHANGED <<ring, chain, mode, misc>>

\* wake_up of the readers, at the end of copy_to_cooked.
Wake(h) ==
    LET p == proc_list["sec"] IN
    /\ pc[h] = "wake"
    /\ Goto(h, IF p = None THEN "off" ELSE "rouse", [NoCall EXCEPT !.c = p])
    /\ Cuts("sec", h)
    /\ UNCHANGED <<ring, proc_list, tmp, awake, overtaken, mode, misc>>

Rouse(h) ==
    /\ pc[h] = "rouse"
    /\ awake' = [awake EXCEPT ![loc[h].c] = TRUE]
    /\ Goto(h, "forget", NoCall)
    /\ UNCHANGED <<ring, proc_list, tmp, overtaken, cut, mode, misc>>

Forget(h) ==
    /\ pc[h] = "forget"
    /\ proc_list' = [proc_list EXCEPT !["sec"] = None]
    /\ Cuts("sec", h) /\ Goto(h, "off", NoCall)
    /\ UNCHANGED <<ring, tmp, awake, overtaken, mode, misc>>

-----------------------------------------------------------------------------
(* tty_read *)

\* rw_char, rw_tty and rw_ttyx lead here; a serial line has no input, see
\* the README.
StartRead(t) ==
    /\ pc[t] = "user" /\ Starts("reads")
    /\ \E n \in 1..MaxCount : Goto(t, "read", [NoCall EXCEPT !.nr = n])
    /\ UNCHANGED <<ring, chain, mode, thre, signal, cr_flag>>

Wanting == EMPTY(sec) \/ (tio.canon /\ data = 0 /\ LEFT(sec) > Slack)

\* The head of the loop.  A queue that wants input but is not empty makes
\* sleep_if_empty return at once: the reader spins here.
Read(t) ==
    /\ pc[t] = "read"
    /\ \/ signal[t] /\ Goto(t, "user", NoCall) /\ UNCHANGED chain
       \/ ~signal[t] /\ EMPTY(sec) /\ Sleep(t)
       \/ ~signal[t] /\ ~Wanting /\ Goto(t, "get", loc[t]) /\ UNCHANGED chain
    /\ UNCHANGED <<ring, mode, misc>>

\* GETCH.  The queue was not empty when it was tested, which is another thing
\* than not being empty now.
GetChar(t) ==
    /\ pc[t] = "get"
    /\ sec' = Taken(sec)
    /\ Laps("sec", EMPTY(sec))
    /\ Races("sec", {u \in Inside("sec", t) : At(u, {"get"}) \/ loc[u].then = "dec"})
    /\ Goto(t, "got", [loc[t] EXCEPT !.c = GETCH(sec)])
    /\ UNCHANGED <<read_q, data, chars, chain, mode, misc>>

\* The rest of the inner loop.  Without ICANON the call goes on until it has
\* VMIN bytes, which are not counted here: it may, or may not.
Got(t) ==
    LET c == loc[t].c
        n == loc[t].nr - 1
        more == n > 0 /\ ~(c = tio.VEOF /\ tio.canon)
    IN /\ pc[t] = "got"
       /\ data' = IF c \in Ends THEN data - 1 ELSE data
       /\ \E l \in CASE more /\ ~EMPTY(sec) -> {"get"}
                     [] more /\ ~tio.canon  -> {"read", "user"}
                     [] OTHER               -> {"user"} :
            Goto(t, l, [loc[t] EXCEPT !.nr = n, !.c = None])
       /\ UNCHANGED <<read_q, sec, chars, lapped, raced, chain, mode, misc>>

-----------------------------------------------------------------------------
(* tty_write *)

StartWrite(t) ==
    /\ pc[t] = "user" /\ Starts("writes")
    /\ \E n \in 1..MaxCount, l \in Line :
         Goto(t, "write", [NoCall EXCEPT !.op = "w", !.line = l, !.nr = n])
    /\ UNCHANGED <<ring, chain, mode, thre, signal, cr_flag>>

\* The head of the loop: sleep_if_full looks whether the queue is full,
WriteLoop(t) ==
    LET l == loc[t].line IN
    /\ pc[t] = "write"
    /\ Goto(t, CASE Room(l) = 0 -> "full" [] signal[t] -> "user" [] OTHER -> "fill", loc[t])
    /\ UNCHANGED <<ring, chain, mode, misc>>

\* and under cli sleeps until it is roomy, not until it is not full.
WriteFull(t) ==
    LET roomy == Room(loc[t].line) >= Roomy IN
    /\ pc[t] = "full"
    /\ \/ ~signal[t] /\ ~roomy /\ Sleep(t)
       \/ /\ signal[t] \/ roomy
          /\ Goto(t, IF signal[t] THEN "user" ELSE "fill", loc[t]) /\ UNCHANGED chain
    /\ UNCHANGED <<ring, mode, misc>>

\* The test of the filling loop.  It ends in tty->write: con_write, or
\* rs_write, which turns the transmitter on under cli; then schedule(), if
\* there is more to write.
Fill(t) ==
    LET l == loc[t].line
        next == IF loc[t].nr > 0 THEN "write" ELSE "user"
    IN /\ pc[t] = "fill"
       /\ \/ /\ loc[t].nr > 0 /\ Room(l) > 0
             /\ Goto(t, "put", loc[t]) /\ UNCHANGED thre
          \/ /\ loc[t].nr = 0 \/ Room(l) = 0
             /\ thre' = (thre \/ (l = "rs" /\ chars[l] > 0))
             /\ Goto(t, IF l = "con" THEN "count" ELSE next, [loc[t] EXCEPT !.then = next])
       /\ UNCHANGED <<ring, chain, mode, signal, cr_flag, load>>

\* PUTCH of a character, or of the CR before a newline of the console, which
\* takes a turn of its own and is marked in cr_flag.
FillChar(t) ==
    LET l == loc[t].line IN
    /\ pc[t] = "put"
    /\ chars' = [chars EXCEPT ![l] = (@ + 1) % BufSize]
    /\ Laps(l, Room(l) = 0) /\ Races(l, Inside(l, t))
    /\ \/ l = "con" /\ ~cr_flag /\ cr_flag' = TRUE /\ Goto(t, "fill", loc[t])
       \/ cr_flag' = FALSE /\ Goto(t, "fill", [loc[t] EXCEPT !.nr = @ - 1])
    /\ UNCHANGED <<read_q, sec, data, chain, mode, thre, signal, load>>

\* write_char of rs_io: a character leaves; the first sleeper is woken, but
\* stays on the queue, when few are left or none.
RsInterrupt ==
    LET n == chars["rs"]
        m == IF n = 0 THEN 0 ELSE n - 1
        p == proc_list["rs"]
    IN /\ thre
       /\ chars' = [chars EXCEPT !["rs"] = m]
       /\ thre' = (m > 0)
       /\ awake' = IF p # None /\ (n <= Startup \/ m = 0) THEN [awake EXCEPT ![p] = TRUE]
                   ELSE awake
       /\ Cuts("rs", None)
       /\ UNCHANGED <<read_q, sec, data, lapped, raced, mode, proc_list, tmp, overtaken,
                      pc, loc, signal, cr_flag, load>>

-----------------------------------------------------------------------------
(* tty_ioctl *)

\* Who has a character on its way into the secondary queue, or out of it.
Coming == {h \in Handler : loc[h].then = "store"}
Going  == {t \in Task : pc[t] = "got"}

\* All of termios is replaced: the modes and the special characters.
SetTermios ==
    /\ Starts("ioctls")
    /\ tio' \in Settings
    /\ \E flushes \in BOOLEAN :
         /\ read_q' = IF flushes THEN <<>> ELSE read_q
         /\ Races("read", IF flushes THEN Inside("read", None) ELSE {})
    /\ shifted' = (\/ shifted
                   \/ /\ tio'.VEOF # tio.VEOF
                      /\ {tio.VEOF, tio'.VEOF} \cap (ToSet(sec)
                              \cup {loc[p].c : p \in Coming \cup Going}) # {})
    /\ UNCHANGED <<pgrp, sec, data, chars, lapped, chain, thre, pc, loc, signal, cr_flag>>

SetPgrp ==
    /\ Starts("ioctls")
    /\ pgrp' = TRUE
    /\ UNCHANGED <<tio, shifted, ring, chain, thre, pc, loc, signal, cr_flag>>

\* TCFLSH: head = tail of write_q, and of read_q too; sleepers are not told.
Flush(l) ==
    /\ Starts("ioctls")
    /\ chars' = [chars EXCEPT ![l] = 0]
    /\ \E both \in BOOLEAN :
         /\ read_q' = IF both /\ l = "con" THEN <<>> ELSE read_q
         /\ raced' = raced \cup {r \in {l} : Inside(l, None) # {}}
                           \cup {r \in {"read"} : both /\ Inside(r, None) # {}}
    /\ UNCHANGED <<sec, data, lapped, chain, mode, thre, pc, loc, signal, cr_flag>>

-----------------------------------------------------------------------------
\* tty_table: INIT_C_CC and the modes of the console.
InitTermios == [canon |-> TRUE, echo |-> TRUE, echoctl |-> TRUE, isig |-> FALSE,
                VERASE |-> "DEL", VSTOP |-> "^S", VINTR |-> "^C", VEOF |-> "^D"]

Init ==
    /\ tio = InitTermios /\ pgrp = FALSE
    /\ read_q = <<>> /\ sec = <<>> /\ data = 0
    /\ chars = [l \in Line |-> 0] /\ thre = FALSE
    /\ proc_list = [q \in Queue |-> None]
    /\ pc = [p \in Party |-> IF p \in Task THEN "user" ELSE "off"]
    /\ loc = [p \in Party |-> NoCall]
    /\ tmp = [t \in Task |-> None]
    /\ awake = [t \in Task |-> TRUE] /\ signal = [t \in Task |-> FALSE]
    /\ cr_flag = FALSE /\ load \in Workload
    /\ lapped = {} /\ raced = {} /\ cut = {} /\ overtaken = FALSE /\ shifted = FALSE

CopyToCooked(h) == \/ Cook(h) \/ Take(h) \/ Echo(h) \/ Store(h) \/ Dec(h)
                   \/ Wake(h) \/ Rouse(h) \/ Forget(h)

SleepOn(t) == \/ Link(t) \/ Lead(t) \/ Mark(t) \/ Resume(t) \/ Pass(t) \/ Unlink(t)
              \/ PassOn(t) \/ Retest(t)

Step == \/ \E h \in Handler : KeyboardInterrupt(h) \/ CopyToCooked(h)
        \/ \E p \in Party : Count(p) \/ ConWrite(p)
        \/ \E t \in Task : \/ StartRead(t) \/ Read(t) \/ GetChar(t) \/ Got(t)
                           \/ StartWrite(t) \/ WriteLoop(t) \/ WriteFull(t)
                           \/ Fill(t) \/ FillChar(t) \/ SleepOn(t)
        \/ RsInterrupt \/ SetTermios \/ SetPgrp \/ \E l \in Line : Flush(l)

\* The bound: no step after the input is overrun.
Next == lapped \subseteq Line /\ Step

Spec == Init /\ [][Next]_vars

-----------------------------------------------------------------------------
(* Properties *)

\* The tasks that S reaches over the tmp variables of their sleeps.
Linked(S) ==
    LET reach[n \in 0..Cardinality(Task)] ==
            IF n = 0 THEN S ELSE reach[n-1] \cup {tmp[u] : u \in reach[n-1] \ {None}}
    IN reach[Cardinality(Task)]

\* secondary.data, which tells tty_read that a whole line is there, is the
\* number of line ends in the ring, counting those a handler has announced and
\* not stored (tty_io.c:176, 190) and those a reader has taken and not yet
\* counted down, through erasure, wrap and changes of mode; otherwise a reader
\* sleeps over a line, or takes half of one.  Two exceptions: two handlers, or
\* an erasing handler and a reader, or two readers met in the queue (raced);
\* VEOF was changed while a character queued was its old or new value
\* (shifted), after which the count stays wrong.
LinesCounted ==
    ("sec" \notin raced /\ ~shifted) =>
        data = Cardinality({i \in DOMAIN sec : sec[i] \in Ends})
             + Cardinality({p \in Coming \cup Going : loc[p].c \in Ends})


\* A reader asleep over input that has come, or a writer asleep on a serial
\* line, is still in the reach of somebody who will wake it: of the head of the
\* queue, of a sleeper that is being woken and holds it in tmp, and for the
\* writer also of the transmitter.  Two exceptions: a sleeper overtaken in
\* interruptible_sleep_on went back to sleep unlinked (overtaken); the chain was
\* changed, or looked at by a waker, while somebody was between two accesses to
\* it (cut), which is possible from the second sleep of a call on, when the
\* interrupt flag is somebody else's.  (Nothing ever wakes a writer of the
\* console: one that sleeps on its write_q got there by a race.)
SleepersLinked ==
    ~overtaken =>
        \A t \in Task :
            LET q == SleptOn(t)
                woken == {u \in Task : /\ SleptOn(u) = q
                                       /\ \/ At(u, {"unlink", "passon"})
                                          \/ At(u, {"asleep"}) /\ (awake[u] \/ signal[u])}
                idle == \A h \in Handler : pc[h] = "off"
            IN (At(t, {"asleep"}) /\ q \notin cut) =>
                 /\ t \in Linked(woken \cup {proc_list[q]})
                 /\ (q = "sec" /\ ~EMPTY(sec) /\ q \notin raced /\ idle) => t \in Linked(woken)
                 /\ (q = "rs" /\ q \notin raced /\ ~thre /\ Inside(q, None) = {})
                        => t \in Linked(woken)

=============================================================================
