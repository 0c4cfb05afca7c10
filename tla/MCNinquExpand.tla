---------------------------- MODULE MCNinquExpand ----------------------------
(***************************************************************************)
(* NinquExpand for TLC: a header, a generator of a source, the objects of all  *)
(* sources, a library of them and something made from it, with the            *)
(* dependencies written in the different ways a manifest allows.              *)
(***************************************************************************)
EXTENDS NinquExpand

MCFile == {"hdr", "g.c", "a.c", "a.o", "g.o", ".o", "out/lib", "app"}

MCBase == [f \in MCFile |-> IF f = "out/lib" THEN "lib" ELSE f]

rule(r) == [kind |-> "rule", name |-> r]
bare(r) == [kind |-> "bare", name |-> r]
path(f) == [kind |-> "path", name |-> f]
glob(S) == [kind |-> "glob", name |-> S]

HDR == 1
GEN == 2
OBJ == 3
LIB == 4
APP == 5

Always(f) == [x \in MCFile \cup {NoFile} |-> f]

Objects ==
  [x \in MCFile \cup {NoFile} |->
     IF x = "a.c" THEN "a.o" ELSE IF x = "g.c" THEN "g.o" ELSE ".o"]

Stamps(hdr, gen, obj, lib) ==
  [f \in MCFile |-> CASE f = "a.c" -> 0 [] f = "hdr" -> hdr [] f = "g.c" -> gen
                      [] f = "a.o" -> obj [] f = "out/lib" -> lib [] OTHER -> -1]

Manifest(gen_in, obj_after, lib_in, app_in, phony, stamps, load, wanted) ==
  [glob         |-> <<FALSE, FALSE, TRUE, FALSE, FALSE>>,
   globs        |-> <<<<>>, <<>>, <<"a.c", "g.c">>, <<>>, <<>>>>,
   skip         |-> [r \in 1 .. 5 |-> {}],
   dyn          |-> [r \in 1 .. 5 |-> {}],
   in           |-> <<<<>>, gen_in, <<>>, lib_in, app_in>>,
   extra_deps   |-> <<<<>>, <<>>, obj_after, <<>>, <<>>>>,
   out          |-> <<Always("hdr"), Always("g.c"), Objects, Always("out/lib"), Always("app")>>,
   produces     |-> [r \in 1 .. 5 |-> NoFile],
   require_file |-> [r \in 1 .. 5 |-> NoFile],
   gate         |-> [r \in 1 .. 5 |-> TRUE],
   phony        |-> [r \in 1 .. 5 |-> r \in phony],
   mtime        |-> stamps,
   load         |-> load,
   wanted       |-> wanted]

MCStamps ==
  {Stamps(-1, -1, -1, -1), Stamps(1, -1, -1, 2), Stamps(-1, 1, 2, -1), Stamps(1, 2, 1, 1),
   Stamps(-1, -1, 1, -1)}

Forms ==
  {<<>>, <<[path |-> "out/lib", rules |-> 5]>>,
   <<[path |-> "hdr", rules |-> 1], [path |-> "out/lib", rules |-> 5]>>}

(* Dependencies written in every way                                         *)
Written ==
  {Manifest(gi, oa, li, ai, ph, st, lo, wa) :
     gi \in {<<>>, <<rule(HDR)>>, <<path("hdr")>>},
     oa \in {<<rule(GEN)>>, <<bare(GEN)>>, <<rule(HDR), rule(GEN)>>},
     li \in {<<rule(OBJ)>>, <<bare(OBJ), path("hdr")>>},
     ai \in {<<rule(LIB), rule(OBJ)>>, <<path("out/lib"), rule(GEN)>>},
     ph \in {{}, {HDR}},
     st \in MCStamps, lo \in Forms, wa \in {<<APP>>, <<OBJ, LIB>>}}

Plain ==
  {Manifest(<<rule(HDR)>>, <<rule(GEN)>>, <<rule(OBJ)>>, <<path("out/lib"), rule(GEN)>>, {}, st, lo,
            <<APP>>) : st \in MCStamps, lo \in Forms}

(* Rules that a gate or a missing (req ...) leaves without instances, and     *)
(* files found by (produces ...) only                                        *)
Gated ==
  UNION {{[m EXCEPT !.gate[r] = FALSE], [m EXCEPT !.require_file[r] = "hdr"],
          [m EXCEPT !.out[LIB] = Always("app"), !.produces[LIB] = "lib"]} :
           m \in Plain, r \in {GEN, OBJ, LIB}}

(* A file is asked for before every rule it needs is declared.               *)
Early ==
  {Manifest(<<>>, <<>>, <<rule(APP)>>, <<>>, {}, st, <<[path |-> "out/lib", rules |-> n]>>, <<APP>>) :
     st \in MCStamps, n \in {3, 4, 5}}

(* Matches that are passed over or turned down, and inputs found by pattern    *)
Picked ==
  UNION {{[m EXCEPT !.skip[OBJ] = {"g.c"}], [m EXCEPT !.dyn[OBJ] = {"a.c"}],
          [m EXCEPT !.skip[OBJ] = {"a.c"}, !.dyn[OBJ] = {"g.c"}],
          [m EXCEPT !.in[LIB] = <<rule(OBJ), glob({"a.o", "g.o", "hdr"})>>],
          [m EXCEPT !.extra_deps[LIB] = <<glob({"a.c", "g.c"}), rule(OBJ)>>]} : m \in Plain}

(* The generator depends on the objects that its own output is among.        *)
Cyclic ==
  {Manifest(<<rule(OBJ)>>, <<rule(GEN)>>, <<rule(OBJ)>>, <<path("out/lib")>>, {}, st, <<>>,
            <<APP>>) : st \in MCStamps}

(* Rules that reach themselves, or each other, by name or by path            *)
Mutual ==
  {Manifest(gi, oa, li, ai, {}, st, lo, <<APP>>) :
     gi \in {<<>>, <<path("out/lib")>>, <<rule(OBJ)>>},
     oa \in {<<rule(GEN)>>, <<rule(LIB), rule(GEN)>>, <<path("app"), rule(OBJ)>>},
     li \in {<<rule(LIB)>>, <<rule(APP)>>, <<path("app")>>, <<rule(OBJ), path("out/lib")>>},
     ai \in {<<rule(LIB), rule(OBJ)>>, <<path("out/lib"), rule(GEN)>>},
     st \in {Stamps(-1, -1, -1, -1), Stamps(1, 1, 1, 1)},
     lo \in {<<>>, <<[path |-> "out/lib", rules |-> 5]>>}}

MCManifests == Written \cup Gated \cup Early \cup Picked \cup Cyclic \cup Mutual
=============================================================================
