---------------------------- MODULE MCTGenModel ----------------------------
(* Programs with no, one and two switches, with gotos in a circle, with a  *)
(* target that is no entry, and the empty one; samples that agree and that *)
(* disagree in their contexts; hashes that are distinct, and that collide. *)
(* Files with these programs, and with labels of every kind of symbol.     *)
EXTENDS Evaluation

Words(words) == JoinStrings([i \in DOMAIN words |-> <<words[i]>>], " ")
Quoted(s) == <<"\"">> \o s \o <<"\"">>
On(cases, target) == <<"on", " ">> \o Quoted(cases) \o <<" ", "goto", " ", target>>
Else(target) == Words(<<"else", "goto", target>>)
Switch(cond, cases) == <<"switch", " ">> \o cond \o <<":">> \o JoinStrings(cases, ";")

Cond == <<"WRITE_TYPE">>
Eq == <<"UP">>
Context == <<"LEFT">>
Leaf == Eq \o <<" ", "=", "eq", "=", " ">> \o Context
Branch(target, default) == Switch(Cond, <<On(<<"a">>, target), Else(default)>>)

ProgramFiles == {
  <<>>,
  <<Leaf, Cond, Branch("1", "0")>>,
  <<Leaf, Switch(<<"type">>, <<On(<<"a">>, "0"), Else("0")>>), <<>>, Cond, Branch("1", "2")>>,
  <<Leaf, Branch("0", "1")>>,
  <<<<" ">> \o Leaf \o <<"\r">>, Branch("0", "7")>>}

MCPrograms == UNION {LoadFromString(f, NamesOfText(<<>>, f)) : f \in ProgramFiles}

Labels ==
  {<<"b", "\\", "o", "a", "|", "\\", "\\", " ", "-", "1">>,
   <<"b", "\r", " ", "a", "|", "b">>,
   <<"a", "|", "\\", "z">>, <<"a", " ", " ", "b">>, <<>>}

MCFiles == ProgramFiles \union
  {<<<<"UP", "@", "3">>, <<"empty">>, <<"UP">> \o <<"=", "eq", "=", " ">>, <<"=", "eq", "=", "UP">>>>,
   <<Switch(<<>>, <<On(<<"b">>, "1")>>)>>,
   <<Switch(<<"type">>, <<On(<<"b">>, "1"), On(<<"a">>, "1"), <<"else">>>>)>>,
   <<<<"switch">>>>, <<Words(<<"UP", "to">>)>>}
  \union
  {<<Switch(<<"parent_type">>, <<On(<<"b">>, "1"), On(on, "2"), <<" ">> \o Else(default)>>)>> :
     on \in Labels, default \in {"1", "3"}}

MCFilters ==
  {<<"type", "=", "=", "b", "|", " ", "a">>,
   <<"type_parent_type", " ", "=", "=", " ", "-", "2", " ", "\\", "d", "a">>,
   <<"UP", "=", "=", "|">>}

Ops(text) == CHOOSE p \in ParseStringToProgram(text) : TRUE

Sample(label, first_child, cond, eq, context) ==
  [label |-> label, has_first_child |-> first_child, has_right_sib |-> FALSE,
   features |-> (Ops(Cond) :> cond) @@ (Ops(Eq) :> eq) @@ (Ops(Context) :> context)
                @@ (<<>> :> <<>>)]

MCSamples == {
  Sample(1, TRUE, <<0>>, <<2, 1>>, <<1, 2>>),
  Sample(2, TRUE, <<0>>, <<2, 1>>, <<1, 2>>),
  Sample(3, TRUE, <<0>>, <<2, 1>>, <<1, 2>>),
  Sample(2, FALSE, <<0>>, <<>>, <<2, 1>>),
  Sample(-1, FALSE, <<2>>, <<1, 1, 2>>, <<1, 2>>),
  Sample(2, FALSE, <<2>>, <<1, 1, 2>>, <<>>)}

Flag(teq, for_type, smoothing, d, beam, m) ==
  [enable_teq |-> teq, is_for_node_type |-> for_type, smoothing_type |-> smoothing,
   kneser_ney_d |-> d, beam_size |-> beam, metric |-> m]

MCTeqStart == -10

MCFlags == {
  Flag(TRUE, FALSE, "WittenBell", Estimated, 4, "ERROR_RATE"),
  Flag(TRUE, TRUE, "WittenBell", Estimated, 1, "ERROR_RATE"),
  Flag(FALSE, FALSE, "Laplace", Estimated, 1, "ERROR_RATE"),
  Flag(FALSE, TRUE, "WittenBell", Estimated, 1, "CONFIDENCE50"),
  Flag(FALSE, FALSE, "KneserNey", Estimated, 1, "CONFIDENCE50"),
  Flag(TRUE, FALSE, "KneserNey", <<1, 2>>, 4, "CONFIDENCE50")}

MCFingerprints == {
  [<<h, op>> \in (0 .. 16) \X (0 .. 2) |-> 3 * h + op + 1],
  [<<h, op>> \in (0 .. 16) \X (0 .. 2) |-> (h + op) % 3]}
=============================================================================
