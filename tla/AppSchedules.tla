---------------------------- MODULE AppSchedules ----------------------------
(***************************************************************************)
(* The schedules of app_data (hhg-app/src/app-data.cpp:142-273, 376-451,   *)
(* 573-598) as two threads use them: the parser's sets them with $DATA 2,  *)
(* member by member; the main state machine, which has the higher priority *)
(* on the one core, looks once a second in READY for one that is due.      *)
(* There is no lock: get_schedule runs as a whole, anywhere between two    *)
(* assignments of set_schedule.                                            *)
(*                                                                         *)
(* The description is only carried along and left out.  Every member of the *)
(* JSON has been read before the first assignment: what does not parse     *)
(* changes nothing.                                                        *)
(***************************************************************************)
EXTENDS Integers, Sequences, FiniteSetsExt

CONSTANTS
    Schedules,  \* HHG_SCHEDULES_SIZE, 2
    Requests,   \* bound: what $DATA 2 is asked for
    Moments     \* bound: the moments at which the state machine looks

NotSet8 == 255       \* static_cast<uint8_t>(NOT_SET)
NotSet16 == 65535    \* NOT_SET

ScheduleStatus == {"UNACTIVE", "ACTIVE", "RUN"}

Byte8 == 0 .. 255
Word16 == 0 .. 65535
Schedule == [minute : Byte8, hour : Byte8, days : Byte8, months : Word16, status : ScheduleStatus]

\* The JSON's numbers are ints of any size; its status is one of the three.
Request == [id : Int, minute : Int, hour : Int, days : Int, months : Int, status : ScheduleStatus]

ASSUME AppSchedulesAssumption ==
    /\ Schedules \in 1 .. 255
    /\ Requests \subseteq Request
    /\ Moments \subseteq [minute : 0 .. 59, hour : 0 .. 23, mday : 1 .. 31, wday : 0 .. 6,
                          mon : 0 .. 11]

VARIABLES
    schedules,     \* data.schedules, without their zones
    setting,       \* the schedule and the JSON of set_schedule, and the members assigned
    due,           \* while READY has it: the moment and current_schedule
    schedules_set, \* history: what each was last asked to be, as it was asked
    changed_live   \* history: the schedules being set while they are active

scheduleVars == <<schedules, setting, due, schedules_set, changed_live>>

Ids == 0 .. Schedules - 1
Unset == [minute |-> NotSet8, hour |-> NotSet8, days |-> NotSet8, months |-> NotSet16,
          status |-> "UNACTIVE"]
Unasked == [id |-> NotSet8, minute |-> NotSet8, hour |-> NotSet8, days |-> NotSet8,
            months |-> NotSet16, status |-> "UNACTIVE"]
NotSetting == [id |-> Schedules, done |-> 0, asked |-> Unasked]
NotLooking == [id |-> Schedules, found |-> Unset]

\* reset().
SchedulesInit ==
    /\ schedules = [id \in Ids |-> Unset]
    /\ setting = NotSetting
    /\ due = NotLooking
    /\ schedules_set = [id \in Ids |-> Unasked]
    /\ changed_live = {}

-----------------------------------------------------------------------------
(* Which schedule is due. *)

HasBit(v, k) == (v \div 2^k) % 2 = 1

(* days.data & get_bit_day(now): the bit is chosen by the day of the month,  *)
(* and for the days 7 to 31 it is every bit.                                 *)
MeetsDay(s, now) ==
    IF now.mday <= 6 THEN HasBit(s.days, now.mday - 1) ELSE s.days # 0

MeetsDate(s, now) ==
    \/ s.days = NotSet8 /\ s.months = NotSet16
    \/ MeetsDay(s, now) /\ s.months = NotSet16
    \/ s.days = NotSet8 /\ HasBit(s.months, now.mon)
    \/ s.days = now.mday /\ s.months = now.mon

\* An hour that is not set is never now; a minute that is not set is 0.
MeetsTime(s, now) ==
    /\ s.hour = now.hour
    /\ s.minute = now.minute \/ (s.minute = NotSet8 /\ now.minute = 0)

Considered(now) == {id \in Ids : schedules[id].status = "ACTIVE" /\ MeetsTime(schedules[id], now)}

(* get_schedule(timestamp): the first schedule of this minute decides, also  *)
(* for those behind it.  app_main marks its copy as RUN, and drops it        *)
(* (app-main.cpp:331-336).                                                   *)
ReadyLooks ==
    \E now \in Moments :
        LET ids == {id \in Considered(now) : id = Min(Considered(now))
                                             /\ MeetsDate(schedules[id], now)}
        IN /\ due' = IF ids = {} THEN NotLooking
                     ELSE [id |-> Min(ids), found |-> schedules[Min(ids)], now |-> now]
           /\ UNCHANGED <<schedules, setting, schedules_set, changed_live>>

-----------------------------------------------------------------------------
(* $DATA 2. *)

Members == <<"minute", "hour", "days", "months", "status">>

(* What is assigned: each number cut to its member's width, which makes       *)
(* NOT_SET of 65535; and for the minute the JSON's id is read (line 208).    *)
AsAssigned(r) ==
    [minute |-> r.id % 256, hour |-> r.hour % 256, days |-> r.days % 256,
     months |-> r.months % 65536, status |-> r.status]

\* The id is cut to eight bits before it is tested; one behind the table is refused.
BeginSetSchedule ==
    /\ setting = NotSetting
    /\ \E r \in Requests :
           setting' = IF r.id % 256 \in Ids THEN [id |-> r.id % 256, done |-> 0, asked |-> r]
                      ELSE setting
    /\ changed_live' = changed_live \cup {id \in Ids : /\ id = setting'.id
                                                       /\ schedules[id].status = "ACTIVE"}
    /\ due' = NotLooking
    /\ UNCHANGED <<schedules, schedules_set>>

\* Mutated: the status comes first.
AssignStatusFirst ==
    LET id == setting.id
        member == (<<"status">> \o SubSeq(Members, 1, 4))[setting.done + 1]
    IN /\ setting # NotSetting
       /\ schedules' = [schedules EXCEPT ![id][member] = AsAssigned(setting.asked)[member]]
       /\ IF setting.done + 1 < Len(Members)
          THEN /\ setting' = [setting EXCEPT !.done = @ + 1]
               /\ UNCHANGED <<schedules_set, changed_live>>
          ELSE /\ setting' = NotSetting
               /\ schedules_set' = [schedules_set EXCEPT ![id] = setting.asked]
               /\ changed_live' = changed_live \ {id}
       /\ due' = NotLooking

AssignMember ==
    LET id == setting.id
        member == Members[setting.done + 1]
    IN /\ setting # NotSetting
       /\ schedules' = [schedules EXCEPT ![id][member] = AsAssigned(setting.asked)[member]]
       /\ IF setting.done + 1 < Len(Members)
          THEN /\ setting' = [setting EXCEPT !.done = @ + 1]
               /\ UNCHANGED <<schedules_set, changed_live>>
          ELSE /\ setting' = NotSetting
               /\ schedules_set' = [schedules_set EXCEPT ![id] = setting.asked]
               /\ changed_live' = changed_live \ {id}
       /\ due' = NotLooking

\* get_schedule(id), for $DATA 1.
GetSchedule(id) == IF id \in Ids THEN schedules[id] ELSE Unset

SchedulesNext == ReadyLooks \/ BeginSetSchedule \/ AssignMember

SchedulesSpec == SchedulesInit /\ [][SchedulesNext]_scheduleVars

-----------------------------------------------------------------------------
(* Properties. *)

\* A schedule is as a request asked for it, but for the minute.
IsAsAsked(s, r) ==
    /\ s.hour = r.hour % 256 /\ s.days = r.days % 256 /\ s.months = r.months % 65536
    /\ s.status = r.status

(* A schedule is never found due in a mixture of what it was and what it is  *)
(* being set to, unless it was active while it was being set: the status is  *)
(* assigned last, and one that is not active is passed over.  Between two    *)
(* commands, what can be read is the last request of each as a whole.  The   *)
(* minute is left out: see DueWhenAsked (app-data.cpp:146-173, 263-270,      *)
(* 376-451).                                                                 *)
DueIsWhole ==
    /\ due # NotLooking /\ due.id \notin changed_live =>
           IsAsAsked(due.found, schedules_set[due.id])
    /\ setting = NotSetting => \A id \in Ids : IsAsAsked(GetSchedule(id), schedules_set[id])

(* The minute has "values allowed 0 - 59" (app-data.hpp:87-90) and is        *)
(* reported missing as "Unable read minute" (app-data.cpp:212); the bits of  *)
(* days are days of the week, "mon" to "sun" (app-data.hpp:98-113), and      *)
(* get_bit_day is commented with their names (app-data.cpp:582-595).  A      *)
(* schedule is due at the minute and, when days of the week were asked for,  *)
(* on one of the days that its last request asked for.                       *)
DueWhenAsked ==
    due # NotLooking /\ due.id \notin changed_live =>
        LET r == schedules_set[due.id]
        IN /\ r.minute \in 0 .. 59 => due.now.minute = r.minute
           /\ r.days \in 1 .. 127 /\ r.months = NotSet16 =>
                  HasBit(r.days, (due.now.wday + 6) % 7)
=============================================================================
