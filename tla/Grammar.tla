------------------------------- MODULE Grammar -------------------------------
(***************************************************************************)
(* What the passes compute of a grammar by walking it, and the reference   *)
(* semantics they are judged by.                                           *)
(***************************************************************************)
EXTENDS Elements
LOCAL INSTANCE SequencesExt
LOCAL INSTANCE FiniteSetsExt

-----------------------------------------------------------------------------
(***************************************************************************)
(* Walks over nested elements.                                             *)
(***************************************************************************)
RECURSIVE RefsOfElement(_)
RefsOfElement(el) ==
    CASE el.kind = "ref"   -> {el.name}
      [] IsSugar(el)       -> RefsOfElement(el.inner)
      [] el.kind = "group" ->
            UNION { UNION { RefsOfElement(el.alts[a][k]) : k \in DOMAIN el.alts[a] } :
                      a \in DOMAIN el.alts }
      [] OTHER             -> {}

\* refs_in: every reference in a sequence, sugar included.
RefsIn(alt) == UNION { RefsOfElement(alt[k]) : k \in DOMAIN alt }

\* Sums of a function of the members of a sequence.
SumOver(seq, Op(_)) == FoldSeq(LAMBDA x, acc : acc + Op(x), 0, seq)

RECURSIVE DeepSize(_)
DeepSize(el) ==
    CASE IsSugar(el)       -> 1 + DeepSize(el.inner)
      [] el.kind = "group" ->
            1 + SumOver(el.alts, LAMBDA alt : 1 + SumOver(alt, DeepSize))
      [] OTHER             -> 1

SeqSize(alt)    == SumOver(alt, DeepSize)
\* What a production's alternatives hold: 1 for each and its elements.
ProdSize(p)     == SumOver(p.alts, LAMBDA alt : 1 + SeqSize(alt))
GrammarSize(ps) == SumOver(ps, ProdSize)

\* element_may_match_without_consuming, for terminals that always consume
\* except the empty literal and the zero-width engine tokens.
RECURSIVE MayMatchEmpty(_, _)
MayMatchEmpty(el, nullable) ==
    CASE el.kind \in {"opt", "star"} -> TRUE
      [] el.kind = "plus"  -> MayMatchEmpty(el.inner, nullable)
      [] el.kind = "rep"   -> el.min = 0 \/ MayMatchEmpty(el.inner, nullable)
      [] el.kind = "group" ->
            \E a \in DOMAIN el.alts :
               \A k \in DOMAIN el.alts[a] : MayMatchEmpty(el.alts[a][k], nullable)
      [] el.kind = "ref"   -> el.name \in nullable
      [] el.kind = "term"  -> el.name = Eps
      [] el.kind = "token" -> el.name \in {"ZZ", "AA"}

AltMayMatchEmpty(alt, nullable) ==
    \A k \in DOMAIN alt : MayMatchEmpty(alt[k], nullable)

\* non_consuming_rules: the least fixed point.  The code adds one rule at a
\* time in place; the set it ends with does not depend on the order.
RECURSIVE NullableFrom(_, _)
NullableFrom(prods, nullable) ==
    LET next == nullable \cup
                { prods[i].name : i \in { k \in DOMAIN prods :
                    \E a \in DOMAIN prods[k].alts :
                       AltMayMatchEmpty(prods[k].alts[a], nullable) } }
    IN  IF next = nullable THEN nullable ELSE NullableFrom(prods, next)
NonConsumingRules(prods) == NullableFrom(prods, {})

-----------------------------------------------------------------------------
\* seq_token_span: the most tokens a sequence can span, and most + 1 when
\* that is more than most, no number, or cannot be told.  way holds the
\* rules on the way to an element.
Within(n, most) == IF n > most THEN most + 1 ELSE n

RECURSIVE ElementSpan(_, _, _, _)
SeqSpan(seq, way, prods, most) ==
    FoldLeft(LAMBDA n, el : Within(n + ElementSpan(el, way, prods, most), most), 0, seq)
MostOf(alts, way, prods, most) ==
    FoldLeft(LAMBDA n, alt : Max({n, SeqSpan(alt, way, prods, most)}), 0, alts)
ElementSpan(el, way, prods, most) ==
    CASE el.kind \in {"term", "token"} -> 1
      [] el.kind \in {"star", "plus"}  -> most + 1
      [] el.kind = "opt"   -> ElementSpan(el.inner, way, prods, most)
      [] el.kind = "rep" /\ el.max = NoMax -> most + 1
      [] el.kind = "rep" /\ el.max = 0 -> 0
      [] el.kind = "rep"   -> Within(el.max * ElementSpan(el.inner, way, prods, most), most)
      [] el.kind = "group" -> MostOf(el.alts, way, prods, most)
      [] el.kind = "ref"   ->
           IF el.name \in way \/ el.name \notin NamesOf(prods) THEN most + 1
           ELSE IF Find(prods, el.name).alts = <<>> THEN most + 1
           ELSE MostOf(Find(prods, el.name).alts, way \cup {el.name}, prods, most)
SpanOf(seq, prods, most) == SeqSpan(seq, {}, prods, most)

-----------------------------------------------------------------------------
(***************************************************************************)
(* What a grammar means, independently of any pass: the words of length at *)
(* most K each rule derives, and which rules can begin with which.  These  *)
(* are the reference definitions the passes are compared with.             *)
(***************************************************************************)
Concat(A, B, K) == { w \in { u \o v : u \in A, v \in B } : Len(w) <= K }

\* A* up to length K, by squaring until nothing is added.
RECURSIVE Closure(_, _)
Closure(A, K) ==
    LET next == A \cup Concat(A, A, K) IN IF next = A THEN A ELSE Closure(next, K)

RECURSIVE Power(_, _, _)
Power(A, n, K) == IF n = 0 THEN {<<>>} ELSE Concat(A, Power(A, n - 1, K), K)

\* The words of an element, when env gives the words of each rule.  A token
\* naming a token class stands for any member of the class.
RECURSIVE ElementWords(_, _, _)
ElementWords(el, env, K) ==
    LET OfSeq(alt) == FoldRight(LAMBDA e, acc : Concat(ElementWords(e, env, K), acc, K),
                                alt, {<<>>})
        Inner == ElementWords(el.inner, env, K)
    IN  CASE el.kind = "term" /\ el.name = Eps -> {<<>>}
          [] el.kind \in {"term", "token"} /\ el.name \notin DOMAIN env /\ el.name # Eps
               -> {<<el.name>>}
          [] el.kind \in {"ref", "token"} /\ el.name \in DOMAIN env -> env[el.name]
          [] el.kind = "ref"   -> {}
          [] el.kind = "opt"   -> {<<>>} \cup Inner
          [] el.kind = "star"  -> Closure({<<>>} \cup Inner, K)
          [] el.kind = "plus"  -> Concat(Inner, Closure({<<>>} \cup Inner, K), K)
          [] el.kind = "rep" /\ el.max # NoMax /\ el.max < el.min -> {}
          [] el.kind = "rep"   ->
               Concat(Power(Inner, el.min, K),
                      IF el.max = NoMax THEN Closure({<<>>} \cup Inner, K)
                      ELSE Power({<<>>} \cup Inner, el.max - el.min, K), K)
          [] el.kind = "group" -> UNION { OfSeq(el.alts[a]) : a \in DOMAIN el.alts }

SeqWords(alt, env, K) ==
    FoldRight(LAMBDA e, acc : Concat(ElementWords(e, env, K), acc, K), alt, {<<>>})

RECURSIVE WordsFrom(_, _, _)
WordsFrom(prods, env, K) ==
    LET next == [ n \in DOMAIN env |->
                    LET p == Find(prods, n)
                    IN  UNION { SeqWords(p.alts[a], env, K) : a \in DOMAIN p.alts } ]
    IN  IF next = env THEN env ELSE WordsFrom(prods, next, K)

\* The words of length at most K of every rule: the least fixed point.
Words(prods, K) == WordsFrom(prods, [ n \in NamesOf(prods) |-> {} ], K)

-----------------------------------------------------------------------------
\* The rules an element can enter before any input is consumed.
RECURSIVE Corners(_, _)
Corners(el, nullable) ==
    LET OfSeq(alt) == UNION { Corners(alt[k], nullable) :
                        k \in { m \in DOMAIN alt :
                                  AltMayMatchEmpty(SubSeq(alt, 1, m - 1), nullable) } }
    IN  CASE el.kind = "ref"   -> {el.name}
          [] IsSugar(el)       -> Corners(el.inner, nullable)
          [] el.kind = "group" -> UNION { OfSeq(el.alts[a]) : a \in DOMAIN el.alts }
          [] OTHER             -> {}

CornersOf(p, nullable) == Corners(Group(p.alts), nullable)

\* The names reachable from the set S along the edges of the function next.
RECURSIVE ReachFrom(_, _)
ReachFrom(S, next) ==
    LET T == S \cup UNION { next[n] : n \in S } IN IF T = S THEN S ELSE ReachFrom(T, next)

\* The rules that can re-enter themselves at the same input position.
LeftRecursive(prods) ==
    LET nullable == NonConsumingRules(prods)
        names    == NamesOf(prods)
        next     == [ n \in names |-> CornersOf(Find(prods, n), nullable) \cap names ]
    IN  { n \in names : n \in ReachFrom(next[n], next) }

-----------------------------------------------------------------------------
\* compute_first_sets: the least fixed point; the rules that can vanish are
\* NonConsumingRules of a desugared grammar.
RECURSIVE FirstsFrom(_, _, _)
FirstsFrom(prods, fs, null) ==
    LET next == [ r \in DOMAIN fs |->
                    UNION { FirstOfSeq(Find(prods, r).alts[k], fs, null) :
                              k \in DOMAIN Find(prods, r).alts } ]
    IN  IF next = fs THEN fs ELSE FirstsFrom(prods, next, null)
FirstSets(prods) ==
    FirstsFrom(prods, [ r \in NamesOf(prods) |-> {} ], NonConsumingRules(prods))
=============================================================================
