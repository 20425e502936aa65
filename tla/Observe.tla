------------------------------- MODULE Observe -------------------------------
(***************************************************************************)
(* Information sets (gcg-engine: observe.rs): the cards a player cannot    *)
(* identify, what they can be, and the worlds the AI players search, which *)
(* are the state with other identities on those cards.  Written as         *)
(* operators on a state s of module Board and an observer o.               *)
(***************************************************************************)
EXTENDS Board, Functions, FiniteSetsExt

is_hidden_from(s, u, o)  == s.zone[u] \in HiddenZones /\ o \notin s.known[u]
unknown_instances(s, o)  == {u \in Uids : is_hidden_from(s, u, o)}
\* A card in a resource deck is a resource slot, any other a main slot.
slots(s, o, pool) ==
  {u \in unknown_instances(s, o) : (s.zone[u] = "ResourceDeck") = (pool = "resources")}

Copies(f, us, d) == Cardinality({u \in us : f[u] = d})

\* unknown_pools: both decklists, less one copy of the printed card for every
\* card in sight, from the main deck's as long as it has one.  A sorted
\* sequence, in the order of DefIds.
\* Mutant: a Unit variant is taken for another card.
Faces(s)    == s.def
Printed(s)  == [u \in Uids |-> base_def_id(s.def[u])]
Seen(s, o)  == {u \in Uids : s.zone[u] # "none"} \ unknown_instances(s, o)
InMain(d)   == Cardinality({i \in Main(table) : table.main[i] = d})
InResources(d) == IF d = Resource THEN table.resources ELSE 0
Left(n, k)  == IF n > k THEN n - k ELSE 0
Repeat(d, n) == [i \in 1 .. n |-> d]

unknown_pools(s, o) ==
  LET seen(d) == Copies(Printed(s), Seen(s, o), d)
      main(d) == Left(InMain(d), seen(d))
      res(d)  == Left(InResources(d), Left(seen(d), InMain(d)))
  IN [main      |-> FlattenSeq([d \in Defs |-> Repeat(d, main(d))]),
      resources |-> FlattenSeq([d \in Defs |-> Repeat(d, res(d))])]

\* fit: a pool is cut at the number of slots, or repeated up to it.
fit(pool, n) ==
  IF Len(pool) >= n THEN SubSeq(pool, 1, n)
  ELSE [i \in 1 .. n |-> pool[((i - 1) % Len(pool)) + 1]]

own_history(s) ==
  [s EXCEPT !.history = [i \in DOMAIN @ |-> [uid |-> @[i].uid, def |-> s.def[@[i].uid]]]]

\* The ways to lay a pool, in any order, on as many slots.
Laid(pool, us) ==
  {f \in [us -> ToSet(pool)] : \A d \in ToSet(pool) :
     Copies(f, us, d) = Cardinality({i \in DOMAIN pool : pool[i] = d})}

\* The cards of ids get the identities it has for them.
Drawn(s, ids) == [s EXCEPT !.def = [u \in Uids |-> IF u \in DOMAIN ids THEN ids[u] ELSE @[u]]]

\* determinize: every world is the state with the hidden identities drawn
\* again, first the main slots' and then the resource slots', the history
\* naming the new ones, and no view kept.
\* Mutant: the history still names the true cards.
OldHistory(s, f, g) == touch(Drawn(Drawn(s, f), g))
World(s, f, g)      == touch(own_history(Drawn(Drawn(s, f), g)))

determinize(s, o) ==
  LET pools == unknown_pools(s, o)
      main  == slots(s, o, "main")
      res   == slots(s, o, "resources")
  IN {World(s, f, g) : f \in Laid(fit(pools.main, Cardinality(main)), main),
                       g \in Laid(fit(pools.resources, Cardinality(res)), res)}

\* permute_hidden: another truth the observer cannot tell from this one.
permute_hidden(s, o) ==
  LET main == slots(s, o, "main")
      ids  == [i \in 1 .. Cardinality(main) |-> s.def[SetToSeq(main)[i]]]
  IN {touch(own_history(Drawn(s, f))) : f \in Laid(ids, main)}

\* exact_pools: the pools, if together they hold as many cards as the slots.
exact_pools(s, o) ==
  LET pools == unknown_pools(s, o)
      all   == pools.main \o pools.resources
  IN IF Len(all) = Cardinality(unknown_instances(s, o)) THEN {pools} ELSE {}

\* determinize_exact_into: the kept cards keep their identities, each taking
\* one copy out of its pool; the rest is drawn and nothing is fitted.
\* Mutant: the kept card is dealt once more.
KeepsCopy(pool, d) == {pool}
Without(pool, d)   == IF Contains(pool, d) THEN {RemoveFirst(pool, d)} ELSE {}

determinize_exact(s, o, kept) ==
  UNION {LET in_res == s.zone[kept] = "ResourceDeck"
             d      == base_def_id(s.def[kept])
             mains  == IF in_res THEN {p.main} ELSE Without(p.main, d)
             ress   == IF in_res THEN Without(p.resources, d) ELSE {p.resources}
         IN UNION {{World(s, f, g) : f \in Laid(m, slots(s, o, "main") \ {kept}),
                                     g \in Laid(r, slots(s, o, "resources") \ {kept})}
                     : m \in mains, r \in ress}
           : p \in exact_pools(s, o)}

-----------------------------------------------------------------------------
(* Properties.                                                             *)

\* The cards in sight and a decklist say exactly what the others are: the
\* pools are the hidden cards, so fit never repeats and never drops one,
\* wherever the cards have been, and under whichever of their two printed
\* faces they lie.  (unknown_pools; fit counts its pads and trims.)
PoolsAreExact ==
  \A o \in Players :
    LET pools == unknown_pools(st, o)
        hidden(p) == slots(st, o, p)
    IN \A d \in Defs : \A p \in {"main", "resources"} :
         Copies(Printed(st), hidden(p), d) = Cardinality({i \in DOMAIN pools[p] : pools[p][i] = d})

\* The worlds an observer samples do not depend on what is hidden from it:
\* from any truth it cannot tell apart it gets the same worlds, kept view and
\* history included.  (determinize; permute_hidden is the repository's own
\* way to test this.)
TruthDoesNotShow ==
  \A o \in Players : \A t \in permute_hidden(st, o) : determinize(t, o) = determinize(st, o)

\* Keeping one card's identity gives exactly the worlds in which the card is
\* what it is.  (determinize_exact_into.)
KeptWorldsAreWorlds ==
  \A o \in Players : \A u \in unknown_instances(st, o) :
    LET seen(w) == [w EXCEPT !.def = Printed(w), !.history = <<>>]
        is == base_def_id(st.def[u])
    IN {seen(w) : w \in determinize_exact(st, o, u)}
         = {seen(w) : w \in {x \in determinize(st, o) : x.def[u] = is}}
=============================================================================
