------------------------------- MODULE MCCron -------------------------------
(* Two commands, two processes, a clock of two minutes and one crontab, which  *)
(* may become unusable and usable again: a command every minute, one in one    *)
(* minute only, and a second entry for the first command.                     *)
EXTENDS Cron

CONSTANTS backup, fetch

MCCmd == {backup, fetch}

MCCrontabs ==
  { <<[cmd |-> backup, at |-> {0, 1}], [cmd |-> fetch, at |-> {1}],
      [cmd |-> backup, at |-> {1}]>> }
=============================================================================
