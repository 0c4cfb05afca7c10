----------------------------- MODULE NinquExpand -----------------------------
(***************************************************************************)
(* How ninqu turns rules into instances: expand_rule() and                    *)
(* resolve_input_token() of expand.c, which call each other through           *)
(* materialize_if_missing() and run_inst_with_deps() of exec.c and run some   *)
(* commands long before schedule_and_run() does; and the order in which       *)
(* main() loads the manifest, resolves barewords and expands what is wanted.  *)
(*                                                                          *)
(* The C call stack is the variable stack.  Frame names:                      *)
(*   expand  expand_rule(r)          feed   its loop over extra_deps          *)
(*   match   its loop over matches   token  finalize_inst(inst)               *)
(*   runall  every instance of r     run    run_inst_with_deps(inst)          *)
(***************************************************************************)
EXTENDS Integers, SequencesExt

CONSTANTS
  nrules,
  File,
  NoFile,      \* the empty string
  base_of,     \* the last component of a path
  MaxStack,    \* frames the C stack has room for
  Manifests    \* the manifests considered, see ManifestOK

ASSUME RulesAssumption ==
  nrules \in Nat /\ NoFile \notin File /\ DOMAIN base_of = File /\ MaxStack \in Nat

Rule == 1 .. nrules

(* A token of (dep ...) or (after ...): (rule NAME), a bareword that is the   *)
(* name of a rule, a path, or glob: with the paths its pattern matches.       *)
Token ==
  [kind : {"rule", "bare"}, name : Rule] \cup [kind : {"path"}, name : File]
    \cup [kind : {"glob"}, name : SUBSET File]

VARIABLES
  manifest,      \* rules[], with (set-file) and (import) and the command line
  summary_mode,
  phase,         \* where main() is
  next,          \* the form of the manifest, or the argument, it is at
  stack,
  expanded,      \* rules[].expanded
  insts,
  local_overlay, \* the instance whose overlay is in place, 0 for NULL
  mtime,         \* -1 for a file that does not exist
  ran            \* history: the instances whose command was run

expandVars == <<manifest, summary_mode, phase, next, stack, expanded, insts,
                local_overlay, mtime, ran>>

(* out[r][f] is what (out ...) of rule r expands to with $(MATCH) being f; a   *)
(* rule without (glob ...) has the same for all.  globs[r] are the paths its  *)
(* patterns match: those in skip[r] are passed over for (skip), (mark) or a    *)
(* literal rule that has them, those in dyn[r] for a gate that is evaluated    *)
(* with the overlay of the match; gate[r] is the value of any other gate.      *)
ManifestOK(m) ==
  /\ m.glob \in [Rule -> BOOLEAN]
  /\ m.globs \in [Rule -> Seq(File)]
  /\ m.skip \in [Rule -> SUBSET File]
  /\ m.dyn \in [Rule -> SUBSET File]
  /\ m.in \in [Rule -> Seq(Token)]
  /\ m.extra_deps \in [Rule -> Seq(Token)]
  /\ m.out \in [Rule -> [File \cup {NoFile} -> File \cup {NoFile}]]
  /\ m.produces \in [Rule -> Range(base_of) \cup {NoFile}]
  /\ m.require_file \in [Rule -> File \cup {NoFile}]
  /\ m.gate \in [Rule -> BOOLEAN]
  /\ m.phony \in [Rule -> BOOLEAN]
  /\ m.mtime \in [File -> Int]
  /\ m.load \in Seq([path : File, rules : 0 .. nrules])
  /\ m.wanted \in Seq(Rule)

-----------------------------------------------------------------------------

Frame(op, x) == [op |-> op, of |-> x, k |-> 1, back |-> FALSE, arg |-> <<>>]

Top == Last(stack)

At(op) == stack # <<>> /\ Len(stack) <= MaxStack /\ Top.op = op

Pop == stack' = Front(stack)

Goto(f) == stack' = Append(Front(stack), f)

Call(f, callees) == stack' = Front(stack) \o <<f>> \o callees

Advance(f) == [f EXCEPT !.k = @ + 1, !.back = FALSE]

mtime_of(f) == IF f = NoFile THEN -1 ELSE mtime[f]

file_exists(f) == mtime_of(f) >= 0

(* rules[] as far as the manifest is loaded                                  *)
Known == IF phase = "load" THEN 1 .. manifest.load[next].rules ELSE Rule

InstSeq(r) == SelectSeq([n \in 1 .. Len(insts) |-> n], LAMBDA n : insts[n].rule = r)

(* $(MATCH) as kv_get() sees it                                              *)
Match == IF local_overlay = 0 THEN NoFile ELSE insts[local_overlay].match

(* resolve_all_bareword_deps() runs once, after the manifest is loaded.      *)
KindOf(tok) ==
  IF tok.kind = "bare" THEN IF phase = "load" THEN "word" ELSE "rule" ELSE tok.kind

Tokens(r) == manifest.in[r] \o manifest.extra_deps[r]

rule_find_output(path) ==
  {r \in Known : manifest.out[r][NoFile] # NoFile /\ manifest.out[r][Match] = path}

rule_find_produces(base) == {r \in Known : manifest.produces[r] = base}

Least(S) == CHOOSE r \in S : \A q \in S : r <= q

(* The calls materialize_if_missing(path) makes, the first one last.         *)
Materialize(path) ==
  LET found == IF rule_find_output(path) # {} THEN rule_find_output(path)
               ELSE rule_find_produces(base_of[path])
  IN  IF file_exists(path) \/ found = {} THEN <<>>
      ELSE <<Frame("runall", Least(found)), Frame("expand", Least(found))>>

Init ==
  /\ manifest \in Manifests
  /\ ManifestOK(manifest)
  /\ summary_mode \in BOOLEAN
  /\ phase = IF manifest.load = <<>> THEN "wanted" ELSE "load"
  /\ next = 1
  /\ stack = IF manifest.load = <<>> THEN <<>> ELSE <<Frame("load", 0)>>
  /\ expanded = {}
  /\ insts = <<>>
  /\ local_overlay = 0
  /\ mtime = manifest.mtime
  /\ ran = <<>>

-----------------------------------------------------------------------------
(* main(): eprintf() anywhere below ends the process.                        *)

Die ==
  /\ phase' = "exit"
  /\ stack' = <<>>
  /\ UNCHANGED <<manifest, summary_mode, next, expanded, insts, local_overlay, mtime, ran>>

(* parse_set_file() and parse_import(): what the manifest reads is made first. *)
Load ==
  LET path == manifest.load[next].path
  IN  /\ At("load")
      /\ \/ /\ ~Top.back
            /\ Call([Top EXCEPT !.back = TRUE], Materialize(path))
            /\ UNCHANGED <<phase, next>>
         \/ /\ Top.back /\ file_exists(path)
            /\ IF next < Len(manifest.load)
                 THEN next' = next + 1 /\ phase' = phase /\ stack' = <<Frame("load", 0)>>
                 ELSE next' = 1 /\ phase' = "wanted" /\ stack' = <<>>
      /\ UNCHANGED <<manifest, summary_mode, expanded, insts, local_overlay, mtime, ran>>

LoadMissing == At("load") /\ Top.back /\ ~file_exists(manifest.load[next].path) /\ Die

(* resolve_wanted() and include_ref(): a group, a meta-target or GROUP/ALIAS   *)
(* stands for rules, the ones in wanted, that are expanded one after another;  *)
(* what a meta-target sets is taken to be set all along.                      *)
Want ==
  /\ phase = "wanted" /\ stack = <<>> /\ next <= Len(manifest.wanted)
  /\ stack' = <<Frame("expand", manifest.wanted[next])>>
  /\ next' = next + 1
  /\ UNCHANGED <<manifest, summary_mode, phase, expanded, insts, local_overlay, mtime, ran>>

dep_push(deps, new) == deps \o SelectSeq(new, LAMBDA n : ~Contains(deps, n))

(* Everything the rules an instance depends on have been expanded to         *)
WithDeps(inst) ==
  [inst EXCEPT !.dep_inst =
     FoldLeft(LAMBDA acc, r : dep_push(acc, InstSeq(r)), @, inst.dep_rule_names)]

Mut_FirstRuleOnly(all) ==
  [n \in DOMAIN all |->
     IF Len(all[n].dep_rule_names) < 2 THEN WithDeps(all[n])
     ELSE [all[n] EXCEPT !.dep_inst = dep_push(@, InstSeq(Head(all[n].dep_rule_names)))]]

resolve_deps(all) == [n \in DOMAIN all |-> WithDeps(all[n])]

Resolve ==
  /\ phase = "wanted" /\ stack = <<>> /\ next > Len(manifest.wanted)
  /\ phase' = "done"
  /\ insts' = resolve_deps(insts)
  /\ UNCHANGED <<manifest, summary_mode, next, stack, expanded, local_overlay, mtime, ran>>

-----------------------------------------------------------------------------
(* expand_rule()                                                             *)

ExpandUnknown == At("expand") /\ Top.of \notin Known /\ Die

RequireMissing(r) ==
  manifest.require_file[r] # NoFile /\ ~file_exists(manifest.require_file[r])

Mut_Unmarked(r) ==
  /\ expanded' = expanded
  /\ IF ~manifest.gate[r] \/ (~manifest.glob[r] /\ RequireMissing(r)) THEN Pop
     ELSE Goto(IF manifest.glob[r] THEN Frame("feed", r)
               ELSE [Frame("match", r) EXCEPT !.arg = <<NoFile>>])

(* The flag is set before anything else, so that a rule reached again from    *)
(* its own tokens is left alone; a static gate that is false ends it, and a   *)
(* missing (req ...) one that does not glob.                                 *)
EnterRule(r) ==
  /\ expanded' = expanded \cup {r}
  /\ IF r \in expanded \/ ~manifest.gate[r] \/ (~manifest.glob[r] /\ RequireMissing(r))
       THEN Pop
       ELSE Goto(IF manifest.glob[r] THEN Frame("feed", r)
                 ELSE [Frame("match", r) EXCEPT !.arg = <<NoFile>>])

Expand ==
  /\ At("expand") /\ Top.of \in Known
  /\ EnterRule(Top.of)
  /\ UNCHANGED <<manifest, summary_mode, phase, next, insts, local_overlay, mtime, ran>>

dep_feeds_glob(r, dep) ==
  manifest.out[dep][NoFile] # NoFile /\ Contains(manifest.globs[r], manifest.out[dep][Match])

(* The files glob_all() finds                                                *)
glob_all(r) == SelectSeq(manifest.globs[r], LAMBDA f : file_exists(f))

Mut_GlobFirst(f, r, tok) == Goto(Advance(f))

(* A rule among the (after ...) of a glob rule is expanded, and run if what    *)
(* it writes is something the glob looks for.                                *)
FeedToken(f, r, tok) ==
  IF KindOf(tok) = "rule" /\ tok.name \in Known
    THEN IF ~f.back
           THEN Call([f EXCEPT !.back = TRUE], <<Frame("expand", tok.name)>>)
           ELSE Call(Advance(f), IF dep_feeds_glob(r, tok.name)
                                   THEN <<Frame("runall", tok.name)>> ELSE <<>>)
    ELSE Goto(Advance(f))

Feed ==
  /\ At("feed")
  /\ LET r == Top.of
     IN  IF summary_mode \/ Top.k > Len(manifest.extra_deps[r])
           THEN Goto([Frame("match", r) EXCEPT !.arg = glob_all(r)])
           ELSE FeedToken(Top, r, manifest.extra_deps[r][Top.k])
  /\ UNCHANGED <<manifest, summary_mode, phase, next, expanded, insts, local_overlay, mtime,
                 ran>>

NewInst(r, f) ==
  [rule |-> r, match |-> f, dep_rule_names |-> <<>>, dep_inst |-> <<>>, in |-> {},
   stale_extra |-> {}, out |-> NoFile, cmd |-> "none"]

(* A match is passed over before its overlay is made, or turned down with it   *)
(* in place: then it is dropped, and whatever it had replaced is lost.         *)
NextMatch ==
  /\ At("match") /\ Top.k <= Len(Top.arg)
  /\ LET r == Top.of
         f == Top.arg[Top.k]
     IN  \/ /\ f \in manifest.skip[r]
            /\ Goto(Advance(Top))
            /\ UNCHANGED <<insts, local_overlay>>
         \/ /\ f \notin manifest.skip[r]
            /\ f \in manifest.dyn[r] \/ RequireMissing(r)
            /\ Goto(Advance(Top))
            /\ local_overlay' = 0
            /\ UNCHANGED insts
         \/ /\ f \notin manifest.skip[r] \cup manifest.dyn[r] /\ ~RequireMissing(r)
            /\ insts' = Append(insts, NewInst(r, f))
            /\ local_overlay' = Len(insts')
            /\ Call(Advance(Top), <<Frame("token", Len(insts'))>>)
  /\ UNCHANGED <<manifest, summary_mode, phase, next, expanded, mtime, ran>>

EndMatches ==
  /\ At("match") /\ Top.k > Len(Top.arg)
  /\ Pop
  /\ UNCHANGED <<manifest, summary_mode, phase, next, expanded, insts, local_overlay, mtime,
                 ran>>

-----------------------------------------------------------------------------
(* finalize_inst() and resolve_input_token()                                 *)

AtToken(kind) ==
  /\ At("token")
  /\ Top.k <= Len(Tokens(insts[Top.of].rule))
  /\ KindOf(Tokens(insts[Top.of].rule)[Top.k]) = kind

TokenName == Tokens(insts[Top.of].rule)[Top.k].name

only_dep == Top.k > Len(manifest.in[insts[Top.of].rule])

Reads(inst, files) ==
  IF only_dep THEN [inst EXCEPT !.stale_extra = @ \cup files]
  ELSE [inst EXCEPT !.in = @ \cup files]

OutsOf(r) == {insts[n].out : n \in ToSet(InstSeq(r))} \ {NoFile}

(* The overlay is put away for the time expand_rule() needs its own.         *)
RuleToken ==
  /\ AtToken("rule") /\ ~Top.back
  /\ local_overlay' = 0
  /\ Call([Top EXCEPT !.back = TRUE, !.arg = <<local_overlay>>],
          <<Frame("expand", TokenName)>>)
  /\ UNCHANGED <<manifest, summary_mode, phase, next, expanded, insts, mtime, ran>>

RuleTokenDone ==
  /\ AtToken("rule") /\ Top.back
  /\ local_overlay' = Top.arg[1]
  /\ insts' = [insts EXCEPT ![Top.of] =
       LET named == IF Contains(@.dep_rule_names, TokenName) THEN @
                    ELSE [@ EXCEPT !.dep_rule_names = Append(@, TokenName)]
       IN  IF only_dep THEN named ELSE Reads(named, OutsOf(TokenName))]
  /\ Goto(Advance(Top))
  /\ UNCHANGED <<manifest, summary_mode, phase, next, expanded, mtime, ran>>

(* Nothing puts the overlay away around materialize_if_missing().            *)
PathToken ==
  /\ AtToken("path") /\ ~Top.back
  /\ Call([Top EXCEPT !.back = TRUE], Materialize(TokenName))
  /\ UNCHANGED <<manifest, summary_mode, phase, next, expanded, insts, local_overlay, mtime,
                 ran>>

(* A path is an input whether or not somebody could make it.                 *)
PathTokenDone ==
  /\ AtToken("path") /\ Top.back
  /\ insts' = [insts EXCEPT ![Top.of] = Reads(@, {TokenName})]
  /\ Goto(Advance(Top))
  /\ UNCHANGED <<manifest, summary_mode, phase, next, expanded, local_overlay, mtime, ran>>

(* The files that are there; nobody is asked to make one.                    *)
GlobToken ==
  /\ AtToken("glob")
  /\ insts' = [insts EXCEPT ![Top.of] = Reads(@, {f \in TokenName : file_exists(f)})]
  /\ Goto(Advance(Top))
  /\ UNCHANGED <<manifest, summary_mode, phase, next, expanded, local_overlay, mtime, ran>>

(* A bareword seen before resolve_all_bareword_deps() is a path of a file     *)
(* nobody makes.                                                             *)
WordToken ==
  /\ AtToken("word")
  /\ Goto(Advance(Top))
  /\ UNCHANGED <<manifest, summary_mode, phase, next, expanded, insts, local_overlay, mtime,
                 ran>>

DropOverlay == local_overlay' = 0

(* (out ...) is expanded, then the command with $(IN) and $(OUT), which only  *)
(* the instance's own overlay holds; the caller drops the overlay.           *)
Finalize ==
  /\ At("token") /\ Top.k > Len(Tokens(insts[Top.of].rule))
  /\ insts' = [insts EXCEPT ![Top.of].out = manifest.out[insts[Top.of].rule][Match],
                            ![Top.of].cmd = IF local_overlay = Top.of THEN "whole" ELSE "gaps"]
  /\ DropOverlay
  /\ Pop
  /\ UNCHANGED <<manifest, summary_mode, phase, next, expanded, mtime, ran>>

-----------------------------------------------------------------------------
(* run_inst_with_deps() and run_inst_sync()                                  *)

RunAll ==
  /\ At("runall")
  /\ IF Top.k > Len(InstSeq(Top.of)) THEN Pop
     ELSE Call(Advance(Top), <<Frame("run", InstSeq(Top.of)[Top.k])>>)
  /\ UNCHANGED <<manifest, summary_mode, phase, next, expanded, insts, local_overlay, mtime,
                 ran>>

Mut_SelfOnly(inst) == inst

RunDeps(inst) == WithDeps(inst)

RunWithDeps ==
  /\ At("run") /\ ~Top.back
  /\ insts' = [insts EXCEPT ![Top.of] = RunDeps(@)]
  /\ LET deps == insts'[Top.of].dep_inst
     IN  IF Top.k <= Len(deps) THEN Call(Advance(Top), <<Frame("run", deps[Top.k])>>)
         ELSE Goto([Top EXCEPT !.back = TRUE])
  /\ UNCHANGED <<manifest, summary_mode, phase, next, expanded, local_overlay, mtime, ran>>

inst_stale(inst) ==
  \/ manifest.phony[inst.rule]
  \/ ~file_exists(inst.out)
  \/ \E f \in inst.in : mtime_of(f) > mtime_of(inst.out)
  \/ \E f \in inst.stale_extra : file_exists(f) /\ mtime_of(f) > mtime_of(inst.out)

Now == 1 + CHOOSE t \in {mtime[f] : f \in File} : \A f \in File : mtime[f] <= t

Fresh ==
  /\ At("run") /\ Top.back /\ ~inst_stale(insts[Top.of])
  /\ Pop
  /\ UNCHANGED <<manifest, summary_mode, phase, next, expanded, insts, local_overlay, mtime,
                 ran>>

(* A command with gaps where $(IN) and $(OUT) were may still succeed, having  *)
(* written its output or not.                                                *)
Run ==
  /\ At("run") /\ Top.back /\ inst_stale(insts[Top.of])
  /\ LET inst  == insts[Top.of]
         wrote == IF manifest.phony[inst.rule] \/ inst.out = NoFile THEN {} ELSE {inst.out}
     IN  /\ inst.cmd # "none"
         /\ \E done \in IF inst.cmd = "whole" THEN {wrote} ELSE {wrote, {}} :
              mtime' = [f \in File |-> IF f \in done THEN Now ELSE mtime[f]]
  /\ ran' = Append(ran, Top.of)
  /\ Pop
  /\ UNCHANGED <<manifest, summary_mode, phase, next, expanded, insts, local_overlay>>

(* Any command may fail; that of an instance not finalized yet is empty and   *)
(* always does.                                                              *)
RunFails == At("run") /\ Top.back /\ inst_stale(insts[Top.of]) /\ Die

(* SIGSEGV when the stack is used up                                         *)
Overflow ==
  /\ phase # "overflow" /\ Len(stack) > MaxStack
  /\ phase' = "overflow"
  /\ UNCHANGED <<manifest, summary_mode, next, stack, expanded, insts, local_overlay, mtime, ran>>

Next ==
  \/ Load \/ LoadMissing \/ Want \/ Resolve
  \/ ExpandUnknown \/ Expand \/ Feed \/ NextMatch \/ EndMatches
  \/ RuleToken \/ RuleTokenDone \/ PathToken \/ PathTokenDone \/ GlobToken \/ WordToken
  \/ Finalize
  \/ RunAll \/ RunWithDeps \/ Fresh \/ Run \/ RunFails \/ Overflow
  \/ phase \in {"done", "exit", "overflow"} /\ UNCHANGED expandVars

Spec == Init /\ [][Next]_expandVars /\ WF_expandVars(Next)

-----------------------------------------------------------------------------

(* An instance belongs to a rule that expand_rule() has marked, and everything *)
(* it refers to by index exists.                                             *)
ExpandTypeOK ==
  /\ phase \in {"load", "wanted", "done", "exit", "overflow"}
  /\ expanded \subseteq Rule
  /\ local_overlay \in 0 .. Len(insts)
  /\ mtime \in [File -> Int]
  /\ ran \in Seq(1 .. Len(insts))
  /\ \A n \in DOMAIN insts :
       /\ insts[n].rule \in expanded
       /\ insts[n].dep_rule_names \in Seq(Rule)
       /\ insts[n].dep_inst \in Seq(1 .. Len(insts))
       /\ insts[n].in \cup insts[n].stale_extra \subseteq File
       /\ insts[n].cmd \in {"none", "whole", "gaps"}

Finalized(n) == insts[n].cmd # "none"

(* local_overlay points at a variable of a finalize_inst() that has not       *)
(* returned, and a token, an (out ...) or a command is never expanded with    *)
(* the variables of another instance.                                        *)
OverlaySound ==
  /\ local_overlay # 0 /\ phase # "exit" =>
       \E f \in ToSet(stack) : f.op = "token" /\ f.of = local_overlay
  /\ At("token") /\ ~Top.back => local_overlay \in {0, Top.of}

(* "run transitive deps in order so a producer does not archive uncompiled    *)
(* files": a command run during expansion finds every instance of every rule  *)
(* it depends on finalized and up to date, or run if it is phony.  Not so the  *)
(* instances whose command lost $(IN) and $(OUT) with the overlay: it may      *)
(* succeed without writing anything.                                         *)
DepsBuiltFirst ==
  [][ran' # ran =>
       LET inst == insts[Last(ran')]
       IN  \A r \in ToSet(inst.dep_rule_names) : \A n \in ToSet(InstSeq(r)) :
             \/ insts[n].cmd = "gaps"
             \/ /\ Finalized(n)
                /\ IF manifest.phony[r] THEN Contains(ran, n)
                   ELSE ~inst_stale(insts[n])]_expandVars

(* When the instances are handed to schedule_and_run() all of them are        *)
(* finalized, and each has an edge to every instance of the rules it names,   *)
(* whichever of them were expanded after it was run.                         *)
DepsComplete ==
  phase = "done" =>
    \A n \in DOMAIN insts :
      /\ Finalized(n)
      /\ \A r \in ToSet(insts[n].dep_rule_names) :
           ToSet(InstSeq(r)) \subseteq ToSet(insts[n].dep_inst)

(* "so POSIX_BC_C (produces cmd/posix/bc.c) finishes before glob_all() looks  *)
(* for it": a source that a rule listed in (after ...) generates has an       *)
(* instance of a globbing rule that nothing gates or skips, even when the      *)
(* source was not there at the start; provided the command of the generator    *)
(* was expanded whole, with $(IN) and $(OUT).                                 *)
GeneratedFound ==
  phase = "done" /\ ~summary_mode =>
    \A n \in DOMAIN insts : \A r \in expanded :
      /\ manifest.glob[r] /\ manifest.gate[r] /\ manifest.require_file[r] = NoFile
      /\ insts[n].cmd = "whole" /\ ~manifest.phony[insts[n].rule]
      /\ [kind |-> "rule", name |-> insts[n].rule] \in ToSet(manifest.extra_deps[r])
      /\ Contains(manifest.globs[r], insts[n].out)
      /\ insts[n].out \notin manifest.skip[r] \cup manifest.dyn[r]
      => \E k \in DOMAIN insts : insts[k].rule = r /\ insts[k].match = insts[n].out

(* Expansion runs the command of an instance that makes a file at most once,  *)
(* however many rules and paths ask for it.                                  *)
ProducersRunOnce ==
  \A j, k \in DOMAIN ran :
    ran[j] = ran[k] /\ insts[ran[j]].cmd = "whole" /\ ~manifest.phony[insts[ran[j]].rule]
    => j = k

(* schedule.c reports "dependency cycle among ..." and stops: going down the  *)
(* dependencies never comes back to an instance that is being run.           *)
RunNeverRecurs ==
  \A j, k \in DOMAIN stack :
    stack[j].op = "run" /\ stack[k].op = "run" /\ stack[j].of = stack[k].of => j = k

(* The mutual recursion of expand_rule(), resolve_input_token() and            *)
(* materialize_if_missing() ends for every manifest, rules that reach          *)
(* themselves or each other included, before it uses up the stack.  The one     *)
(* recursion that does not end is run_inst_with_deps() on an instance that       *)
(* depends on itself, which nothing looks for during expansion.                 *)
ExpandTerminates == <>(phase \in {"done", "exit"} \/ ~RunNeverRecurs)

(* expand.c: "skipped in summary mode: -S must not execute"                   *)
SummaryExecutesNothing == summary_mode => ran = <<>>

(* expand.c, before finalize_inst(): "caller must have local_overlay set if   *)
(* needed"; kv.c: "overlay beats global beats environ".                      *)
OverlayKept == At("token") /\ ~Top.back => local_overlay = Top.of

(* resolve.c: "a plain token in (dep) or (after) that names an existing rule  *)
(* means the same as (rule NAME)".                                           *)
BarewordMeansRule ==
  \A n \in DOMAIN insts : Finalized(n) =>
    \A tok \in ToSet(Tokens(insts[n].rule)) :
      tok.kind = "bare" => Contains(insts[n].dep_rule_names, tok.name)
=============================================================================
