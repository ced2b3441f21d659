----------------------------- MODULE MCResolve -----------------------------
(* Two names, one under the other.  Six rules, all of them in one list and  *)
(* in the reverse one, so that each stands before and after every other;    *)
(* suffix rules that say the same; rules that apply to one listener or to   *)
(* none, before the older lists; and static records without rules.          *)
EXTENDS Resolve

Shop == <<"shop">>

WwwShop == <<"www", "shop">>

MCNames == {Shop, WwwShop}

Rule(match, text, conditions, through) ==
  [match |-> match, text |-> text, conditions |-> conditions, through |-> through]

Both == {"externalDns", "internalDns"}

ShopExact == Rule("exact", Shop, Both, <<"direct">>)

ShopSuffix == Rule("suffix", Shop, Both, <<"vusa">>)

ShopAgain == Rule("suffix", Shop, Both, <<"proxy">>)

WwwInside == Rule("exact", WwwShop, {"internalDns"}, <<"proxy">>)

WwwOutside == Rule("suffix", WwwShop, {"externalDns"}, <<"direct">>)

WwwNowhere == Rule("exact", WwwShop, Both, <<>>)

Every == <<WwwNowhere, ShopSuffix, WwwOutside, ShopExact, ShopAgain, WwwInside>>

Nothing == [domains |-> {}, suffixes |-> {}]

Bare ==
  [rules |-> <<>>, staticA |-> {}, staticASuffix |-> {}, exclude |-> {}, hard |-> Nothing,
   direct |-> Nothing, localProxy |-> Nothing, vusaProxy |-> Nothing, proxy |-> Nothing,
   default |-> "proxy", localDefault |-> "direct", edges |-> {"public"}]

MCPolicies ==
  {[Bare EXCEPT !.rules = list] :
     list \in {Every, Reverse(Every), <<ShopSuffix, WwwOutside, ShopAgain>>}} \cup
  {[Bare EXCEPT !.staticASuffix = {Shop}, !.exclude = {WwwShop}],
   [Bare EXCEPT !.rules = <<WwwNowhere, WwwInside>>,
                !.localProxy = [domains |-> {Shop}, suffixes |-> {}],
                !.vusaProxy = [domains |-> {}, suffixes |-> {WwwShop}], !.edges = {"local", "vusa"}]}

MCAskers == {[mode |-> "non_ru_via_proxy", default |-> ""], [mode |-> "", default |-> "direct"]}
=============================================================================
