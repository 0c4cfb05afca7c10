----------------------------- MODULE CronMatch ------------------------------
(***************************************************************************)
(* When an entry of the crontab is due: parsefield() and matchentry() of      *)
(* cmd/pseudo/cron.c, for one field of an entry (the others "*") while the    *)
(* part of the time it is matched with runs through its values.               *)
(*                                                                          *)
(* A field is given by its form and its numbers; strtol() reads 0 where a     *)
(* range or a list leaves a number out.                                      *)
(***************************************************************************)
EXTENDS Integers, Sequences

CONSTANTS Toks, Years

(* strtol() reads numbers; a step and a number are one, a range is two.       *)
ASSUME ToksAssumption ==
  \A t \in Toks :
    /\ t.nums \in Seq(Int)
    /\ t.form \in {"step", "number"} => Len(t.nums) = 1
    /\ t.form = "range" => Len(t.nums) = 2

ASSUME YearsAssumption == Years \subseteq Nat   \* tm_year, counted from 1900

Fields == {"min", "hour", "mday", "mon", "wday"}

VARIABLES
  field, tok,   \* the field that is not "*" and what it says
  v,            \* that part of struct tm
  mon, year,    \* tm_mon and tm_year
  since         \* units since the field matched last, up to Cap; 0 if it has not yet

Cap == 99

matchVars == <<field, tok, v, mon, year, since>>

(* flim[] of loadentries()                                                   *)
low(fd) == IF fd \in {"mday", "mon"} THEN 1 ELSE 0

high(fd) ==
  CASE fd = "min" -> 59 [] fd = "hour" -> 23 [] fd = "mday" -> 31
    [] fd = "mon" -> 12 [] fd = "wday" -> 6

InRange(ns, lo, hi) == \A i \in DOMAIN ns : ns[i] \in lo .. hi

Error == [type |-> "ERROR", val |-> <<>>]

(* parsefield(): */0 and a number outside the limits are errors              *)
parsefield(t, lo, hi) ==
  IF t.form = "*" THEN [type |-> "WILDCARD", val |-> <<>>]
  ELSE IF \/ t.form \notin {"step", "number", "range", "list"}
          \/ t.form = "step" /\ t.nums[1] = 0
          \/ ~InRange(t.nums, lo, hi) THEN Error
  ELSE [type |-> CASE t.form = "step" -> "REPEAT" [] t.form = "number" -> "NUMBER"
                   [] t.form = "range" -> "RANGE" [] t.form = "list" -> "LIST",
        val |-> t.nums]

isleap(y) == y % 400 = 0 \/ (y % 100 # 0 /\ y % 4 = 0)

daysinmon(m, y) ==
  LET yr == IF y < 1900 THEN y + 1900 ELSE y
      days == <<31, IF isleap(yr) THEN 29 ELSE 28, 31, 30, 31, 30, 31, 31, 30, 31, 30, 31>>
  IN  days[m + 1]

(* .len of matchtbl[]                                                        *)
len(fd) ==
  CASE fd = "min" -> 60 [] fd = "hour" -> 24 [] fd = "mday" -> daysinmon(mon, year)
    [] fd = "mon" -> 12 [] fd = "wday" -> 7

Mut_ZeroIsMultiple(f, tm, ln) == tm % f.val[1] = 0

(* case REPEAT                                                               *)
MatchRepeat(f, tm, ln) ==
  IF tm > 0 THEN tm % f.val[1] = 0 ELSE ln % f.val[1] = 0

Mut_OpenRange(f, tm) == f.val[1] <= tm /\ tm < f.val[2]

(* case RANGE                                                                *)
MatchRange(f, tm) == f.val[1] <= tm /\ tm <= f.val[2]

(* One round of matchentry()'s loop; the fields that are "*" always match.    *)
matchentry(f, tm, ln) ==
  \/ f.type = "WILDCARD"
  \/ f.type = "NUMBER" /\ f.val[1] = tm
  \/ f.type = "RANGE" /\ MatchRange(f, tm)
  \/ f.type = "REPEAT" /\ MatchRepeat(f, tm, ln)
  \/ f.type = "LIST" /\ \E i \in DOMAIN f.val : f.val[i] = tm

Parsed == parsefield(tok, low(field), high(field))

(* The values struct tm has: days from 1, months from 0                      *)
First(fd) == IF fd = "mday" THEN 1 ELSE 0

MatchInit ==
  /\ field \in Fields /\ tok \in Toks
  /\ Parsed.type # "ERROR"
  /\ year \in Years /\ mon \in IF field = "mday" THEN 0 .. 11 ELSE {0}
  /\ v = First(field)
  /\ since = 0

Due == matchentry(Parsed, v, len(field))

(* The clock moves on by one unit of the field.                              *)
Advance ==
  /\ since' = IF Due THEN 1 ELSE IF since \in 1 .. Cap - 1 THEN since + 1 ELSE since
  /\ LET last == First(field) + len(field) - 1
     IN  \/ v < last /\ v' = v + 1 /\ UNCHANGED mon
         \/ v = last /\ v' = First(field)
            /\ mon' = IF field = "mday" THEN (mon + 1) % 12 ELSE mon
  /\ UNCHANGED <<field, tok, year>>

MatchSpec == MatchInit /\ [][Advance]_matchVars

-----------------------------------------------------------------------------

(* What a number, a range, a list or "*" stands for                          *)
Denotes(t, lo, hi) ==
  CASE t.form = "*" -> lo .. hi
    [] t.form = "range" -> t.nums[1] .. t.nums[2]
    [] OTHER -> {t.nums[i] : i \in DOMAIN t.nums}

(* Minutes, hours, days and weekdays match the values the field denotes and    *)
(* no others, to the ends of every range.                                    *)
MatchMeaning ==
  field # "mon" /\ tok.form # "step" => (Due <=> v \in Denotes(tok, low(field), high(field)))

(* Between two runs of a field with a step of n there are at least n units, also *)
(* where the hour, the day, the month or the week ends and n does not divide it. *)
RepeatSpaced ==
  tok.form = "step" /\ field # "mon" /\ Due /\ since > 0 => since >= tok.nums[1]

(* {"mon", 1, 12}: month n of the crontab is the n-th month, tm_mon = n - 1.    *)
MonthMeaning ==
  field = "mon" /\ tok.form # "step" => (Due <=> v + 1 \in Denotes(tok, 1, 12))
=============================================================================
