------------------------------- MODULE MCMake -------------------------------
EXTENDS Make

(* Makefiles over the targets all, x, y and d, the source s, an inference rule   *)
(* and .DEFAULT                                                              *)
NoSource == [r \in Target |-> [t \in Target |-> None]]

Lines(f) == [t \in Target |-> IF t \in DOMAIN f THEN f[t] ELSE 0]

Base == [edges |-> <<>>, lines |-> Lines(<<>>), defined |-> {}, phony |-> {},
         precious |-> {}, suffixes |-> <<>>, source |-> NoSource,
         files |-> {"x", "y", "d", "s"}, goals |-> <<"all">>]

(* all: x y; x: d; y: d; d: s *)
Diamond ==
  [Base EXCEPT
     !.edges = << <<"all", "x">>, <<"all", "y">>, <<"x", "d">>, <<"y", "d">>,
                  <<"d", "s">> >>,
     !.lines = Lines([all |-> 1, x |-> 1, y |-> 1, d |-> 1]),
     !.defined = {"all", "x", "y", "d"}]

(* the same with a phony goal, d forced by a target without file or recipe *)
Forced ==
  [Diamond EXCEPT !.lines = Lines([x |-> 1, y |-> 1, d |-> 1]),
                  !.phony = {"all"}, !.precious = {"x"},
                  !.files = {"x", "y", "d"},
                  !.defined = {"all", "x", "y", "d", "s"}]

(* x is made from s by .c.o, and y too, which also depends on x *)
Inferred ==
  [Base EXCEPT
     !.edges = << <<"y", "x">>, <<"x", "y">> >>,
     !.lines = Lines([r |-> 2]),
     !.defined = {"x", "y", "r"},
     !.goals = <<"y", "x">>,
     !.suffixes = <<"r">>,
     !.source = [NoSource EXCEPT !["r"]["x"] = "s", !["r"]["y"] = "s"],
     !.files = {"x", "y", "s"}]

(* two goals, a target only .DEFAULT can make *)
Fallback ==
  [Base EXCEPT
     !.edges = << <<"x", "d">>, <<"y", "d">>, <<"y", "s">> >>,
     !.lines = Lines([x |-> 2, y |-> 1, def |-> 1]),
     !.defined = {"x", "y", "def"},
     !.files = {"x", "y", "s"},
     !.goals = <<"x", "y">>]

(* x: d; d: y; y: x *)
Circle ==
  [Base EXCEPT
     !.edges = << <<"x", "d">>, <<"d", "y">>, <<"y", "x">> >>,
     !.lines = Lines([x |-> 1, y |-> 1, d |-> 1]),
     !.defined = {"x", "y", "d"},
     !.goals = <<"x">>]

MCCircular == {Circle} \X {{}}

MCInvocations ==
  ({Diamond, Forced, Inferred, Fallback} \X {{}, {"k"}, {"q"}})
    \cup ({Diamond, Inferred} \X {{"t"}})
    \cup ({Fallback} \X {{"i"}, {"n"}})
    \cup ({[Fallback EXCEPT !.defined = {"x", "y"}]} \X {{}, {"k"}, {"q"}})

=============================================================================
