--------------------------------- MODULE Armed ---------------------------------
(***************************************************************************)
(* Armed & Dangerous: cubes on the first character and on the orange cards *)
(* of each player, and the requests and effects of its cards that Events,  *)
(* Equips, Queries, BaseCards and Draws do not hold.                       *)
(***************************************************************************)
EXTENDS Gold

(***************************************************************************)
(* Cubes taken from the table: request_add_cube, n of them.                *)
(***************************************************************************)

\* With no choice to make they are placed at once.
UpdateAddCube(t, r) ==
  LET slots == CubeSlots(t, r.who)
      Placed(x, c) ==
        Then(Min({x.n, CubeRoom(t, c)}), LAMBDA k : [t |-> AddCubes(x.t, c, k), n |-> x.n - k])
  IN  IF \/ SumOver(slots, LAMBDA c : CubeRoom(t, c)) <= r.n
         \/ Len(SelectSeq(slots, LAMBDA c : CubeRoom(t, c) > 0)) <= 1
      THEN FoldLeft(Placed, [t |-> Pop(t), n |-> r.n], slots).t
      ELSE Live(t)
AddCubePick(t, r, c) ==
  /\ Owner(t, c) = r.who /\ CubeRoom(t, c) > 0
  /\ (Pocket(t, c) = "table" /\ Color(c) = "orange") \/ c = Head(Characters(t, r.who))
AddCubePicked(t, r, c) ==
  AddCubes(IF r.n = 1 THEN Pop(t) ELSE SetTop(t, [r EXCEPT !.n = @ - 1]), c, 1)

(***************************************************************************)
(* Cubes of another player.                                                *)
(***************************************************************************)

Rust(t, c, p, q, flags) == QueueAt(t, [Request("rust", c, p, q) EXCEPT !.flags = flags], 0)
\* The slots are listed before the first of them is left without cubes.
RustResolved(t, r) ==
  ForEach(Pop(t), CubeSlots(t, r.who), LAMBDA a, c : MoveCubes(a, c, Head(Characters(a, r.by)), 1))

FrankieCantonOk(t, p, c) == c # Head(Characters(t, p)) /\ t.cubes[c] > 0
FrankieCanton(t, p, c) == MoveCubes(t, c, Head(Characters(t, p)), 1)

\* Red Ringo: from his first character to his orange cards
MoveCubeSlot(t, p, targets) ==
  ForEach(t, targets, LAMBDA a, c : MoveCubes(a, Head(Characters(a, p)), c, 1))

\* play_visitor<"select_cubes">: the cubes go to the table, those of a card together.
Copies(seq, c) == Len(SelectSeq(seq, LAMBDA d : d = c))
SelectCubes(t, cubes) ==
  ForEach(t, SetToSortSeq(ToSet(cubes), LAMBDA c, d : OrderOf(c) < OrderOf(d)),
          LAMBDA a, c : MoveCubes(a, c, None, Copies(cubes, c)))

(***************************************************************************)
(* Effects that depend on whether cubes were paid for them.                *)
(***************************************************************************)

Squaw(t, cubes, c, p, target) ==
  LET flags == {"escapable", "single_target"}
  IN  IF Owner(t, target) = 0 THEN t
      ELSE IF cubes # 0 THEN Steal(t, c, p, target, flags) ELSE Destroy(t, c, p, target, flags)
Duck(t, cubes, c, p) == IF cubes # 0 THEN ToHand(t, p, c) ELSE t
Flintlock(t, cubes, c, p) ==
  IF cubes = 0 THEN t
  ELSE QueueAt(Listen(t, Listener("flintlock", c, p, 0)), Action("flintlock_ends", c, None, p), 90)
FlintlockEnds(t, r) == Unlisten(t, r.card, {"flintlock"})

\* Big Fifty, Buntline Special, Double Barrel, Thunderer: for the next bang
BangModPlayed(t, kind, c, p) == Listen(t, Listener(kind, c, p, 0))

MsAbigailOk(t, p) ==
  Pending(t) /\ Top(t).who = p /\ MsAbigailEscape(Top(t).card, Top(t).by, Top(t).flags)

(***************************************************************************)
(* Tumbleweed: c holds the request whose cards are drawn again, or are not.*)
(***************************************************************************)

TumbleweedOk(t, p) == TopIs(t, {"tumbleweed"}) /\ Top(t).who = p
TumbleweedResolved(t, r) ==
  IF r.c.kind = "rum" THEN ResolveRum(Pop(t), r.c) ELSE ResolveCheck(Pop(t), r.c, r.c.c)
DrawAgain(t, r) ==
  Then(DiscardSelected(t), LAMBDA a : IF r.kind = "rum" THEN DrawRum(a, r) ELSE StartCheck(a, r))
TumbleweedPlayed(t) == DrawAgain(Pop(t), Top(t).c)
================================================================================
