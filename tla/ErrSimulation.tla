---------------------------- MODULE ErrSimulation ----------------------------
(***************************************************************************)
(* Error simulation (src/src/common/err_simulation.cc and the command line  *)
(* tool src/tools/err_simulator.cc): the tool packs its flags into a        *)
(* message, the listener hands the message to ErrSimHandler, which sets an  *)
(* error on the chosen QAT units; the threads that submit, poll and complete*)
(* requests on a unit get the error as often, or as long, as was asked for. *)
(***************************************************************************)
EXTENDS Integers, Sequences

CONSTANTS
    Unit,      \* the units: a sequence of [pf, vf, inst]
    Ids,       \* the [pf, vf, inst] the tool is given, existing or not
    Codes,     \* codes other than OK and Timeout
    MaxCnt,    \* bound of cnt
    MaxInject, \* bound: messages
    MaxTime

OK == 0
Timeout == 6

\* Units are found by pf, vf and instance; the code of a result error is none of the
\* two with a meaning of their own.
ConstantsOK ==
    /\ Unit \in Seq([pf : Nat, vf : Nat, inst : Nat]) /\ Ids \subseteq [pf : Nat, vf : Nat, inst : Nat]
    /\ Codes \subseteq Int \ {OK, Timeout} /\ MaxCnt \in Nat

VARIABLES
    sim,       \* err_sim_ of each unit: [type, code, cnt, until]
    now,
    injected,  \* number of messages
    broken,    \* an unknown instance was named: a null unit is used
    want,      \* history: what the tool last asked of each unit, [type, code, cnt, at]
    given      \* history: errors the unit's threads got since then

vars == <<sim, now, injected, broken, want, given>>

Types == {"submit", "poll", "result"}
NoSim == [type |-> "num", code |-> OK, cnt |-> 0, until |-> 0]

Select == [all |-> 0, pf |-> 1, vf |-> 2, inst |-> 3]
Ops == [inject |-> 0, ls |-> 1]

Init ==
    /\ sim = [u \in DOMAIN Unit |-> NoSim] /\ now = 0 /\ injected = 0 /\ broken = FALSE
    /\ want = [u \in DOMAIN Unit |-> [type |-> "num", code |-> OK, cnt |-> 0, at |-> 0]]
    /\ given = [u \in DOMAIN Unit |-> 0]

\* The tool's command line
Args == [specify : DOMAIN Select, op : DOMAIN Ops, id : Ids,
         type : Types, code : Codes \cup {OK, Timeout}, cnt : 0 .. MaxCnt]

\* What the tool accepts
ParseTypeCodeCnt(a) ==
    /\ a.code = Timeout => a.type = "result"
    /\ a.code # OK => a.cnt # 0

\* Mutant: the operation is put on the bit of the selection.
PackQatErrSimUdsFlagsLow(selection, op) == 2 * ((selection % 4) \div 2) + (op % 2)

\* Two bits of selection, one of operation
PackQatErrSimUdsFlags(selection, op) == (selection % 4) + 4 * (op % 2)

\* The ids that were not asked for stay 0xff.
ParseSpecify(a) ==
    [selection |-> Select[a.specify],
     pf   |-> IF a.specify = "all" THEN 255 ELSE a.id.pf,
     vf   |-> IF a.specify \in {"all", "pf"} THEN 255 ELSE a.id.vf,
     inst |-> IF a.specify # "inst" THEN 255 ELSE a.id.inst]

PackQatErrSimUdsMsg(flags, p, a) ==
    [flags |-> flags, pf |-> p.pf, vf |-> p.vf, inst |-> p.inst,
     type |-> a.type, code |-> a.code, cnt |-> a.cnt]

ParseIntoMsg(a) ==
    LET p == ParseSpecify(a)
    IN  PackQatErrSimUdsMsg(PackQatErrSimUdsFlags(p.selection, Ops[a.op]), p, a)

\* GetQatUnit: all units, or those LookupUnits finds by the ids of the message
GetQatUnit(m) ==
    LET selection == m.flags % 4
    IN  {u \in DOMAIN Unit :
            /\ selection >= 1 => Unit[u].pf = m.pf
            /\ selection >= 2 => Unit[u].vf = m.vf
            /\ selection = 3 => Unit[u].inst = m.inst}

\* QatErrSim::SetError
SetError(m) ==
    [type |-> m.type, code |-> m.code, cnt |-> m.cnt,
     until |-> IF m.code = Timeout THEN now + m.cnt ELSE 0]

\* The units the tool means
Meant(a, u) ==
    CASE a.specify = "all"  -> TRUE
      [] a.specify = "pf"   -> Unit[u].pf = a.id.pf
      [] a.specify = "vf"   -> Unit[u].pf = a.id.pf /\ Unit[u].vf = a.id.vf
      [] a.specify = "inst" -> Unit[u] = a.id

\* HandleQatErrSim: a list changes nothing, a message about no unit or with values that
\* do not fit is refused.  GetUnitWithInstId gives a null unit for an unknown instance,
\* and the first use of it is not defined.
HandleQatErrSim(m) ==
    LET units == GetQatUnit(m)
        list == (m.flags \div 4) % 2 = 1
        valid == /\ units # {}
                 /\ m.code = Timeout => m.type = "result"
                 /\ m.cnt = 0 => m.code = OK
    IN  IF m.flags % 4 = 3 /\ units = {}
        THEN broken' = TRUE /\ UNCHANGED sim
        ELSE /\ UNCHANGED broken
             /\ sim' = IF list \/ ~valid THEN sim
                       ELSE [u \in DOMAIN Unit |-> IF u \in units THEN SetError(m) ELSE sim[u]]

\* The tool's main, then ErrSimHandler in the process
Inject(a) ==
    LET asks(u) == a.op = "inject" /\ Meant(a, u)
    IN  /\ ~broken /\ injected < MaxInject /\ ParseTypeCodeCnt(a)
        /\ injected' = injected + 1
        /\ HandleQatErrSim(ParseIntoMsg(a))
        /\ want' = [u \in DOMAIN Unit |->
                       IF asks(u)
                       THEN [type |-> a.type, code |-> a.code, cnt |-> a.cnt, at |-> now]
                       ELSE want[u]]
        /\ given' = [u \in DOMAIN Unit |-> IF asks(u) THEN 0 ELSE given[u]]
        /\ UNCHANGED now

\* Mutant: the error that uses up the count stays.
AfterErrStays(s) ==
    LET cnt == IF s.code = Timeout THEN (IF now > s.until THEN 0 ELSE s.cnt) ELSE s.cnt - 1
    IN  IF s.code = Timeout /\ cnt = 0 THEN NoSim
        ELSE IF cnt = 0 THEN s ELSE [s EXCEPT !.cnt = cnt]

\* GetErr: the state it leaves.  An error that is used up, or a hang that is over, is
\* cleared by Reset, and the caller still gets the code.
AfterErr(s) ==
    LET cnt == IF s.code = Timeout THEN (IF now > s.until THEN 0 ELSE s.cnt) ELSE s.cnt - 1
    IN  IF cnt = 0 THEN NoSim ELSE [s EXCEPT !.cnt = cnt]

GetErr(u, type) ==
    /\ ~broken
    /\ sim[u].type = type /\ sim[u].code # OK
    /\ sim' = [sim EXCEPT ![u] = AfterErr(sim[u])]
    /\ given' = [given EXCEPT ![u] = @ + 1]
    /\ given[u] <= MaxCnt
    /\ UNCHANGED <<now, injected, broken, want>>

Tick ==
    /\ ~broken /\ now < MaxTime
    /\ now' = now + 1
    /\ UNCHANGED <<sim, injected, broken, want, given>>

Next ==
    \/ \E a \in Args : Inject(a)
    \/ \E u \in DOMAIN Unit, type \in Types : GetErr(u, type)
    \/ Tick

Spec == Init /\ [][Next]_vars

-----------------------------------------------------------------------------

\* The types of err_sim_ and of the histories.
TypeOK ==
    /\ sim \in [DOMAIN Unit -> [type : Types \cup {"num"}, code : Codes \cup {OK, Timeout},
                                cnt : Nat, until : Nat]]
    /\ want \in [DOMAIN Unit -> [type : Types \cup {"num"}, code : Codes \cup {OK, Timeout},
                                 cnt : Nat, at : Nat]]
    /\ given \in [DOMAIN Unit -> Nat] /\ now \in Nat

\* An error that is set is the one asked for last, it is not used up, and a hang ends when
\* the tool's count says.
SetAsAsked ==
    \A u \in DOMAIN Unit : sim[u].code # OK =>
        /\ sim[u].type = want[u].type /\ sim[u].code = want[u].code /\ sim[u].cnt > 0
        /\ sim[u].code = Timeout => sim[u].until = want[u].at + want[u].cnt

\* A unit behaves as the tool last asked for it: an error of count n is given n times,
\* neither lost nor repeated though several threads ask for it and messages about other
\* units come between; a hang lasts at least its time; what was cleared stays so
\* (QatErrSim::GetErr and SetError, and the message between the tool and
\* HandleQatErrSim).
ErrorsAsAsked ==
    \A u \in DOMAIN Unit :
        LET w == want[u]
        IN  CASE w.code = OK -> sim[u].code = OK
              [] w.code = Timeout -> sim[u].code = Timeout \/ now > w.at + w.cnt
              [] OTHER -> given[u] + sim[u].cnt = w.cnt
                          /\ (sim[u].cnt > 0 => sim[u].type = w.type /\ sim[u].code = w.code)
=============================================================================
