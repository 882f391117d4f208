----------------------------- MODULE MCInfoProxy -----------------------------
(***************************************************************************)
(* One device, one model.  A key is missing or holds three rules: the      *)
(* address of the destination on other ports, its domain for ftp only, and *)
(* the ending of its name on ports 1 to 2, whose range alone is met.       *)
(***************************************************************************)
EXTENDS InfoProxy, TLC

CONSTANTS d1, m1

NoName == [star |-> FALSE, labels |-> <<>>]

MCRules ==
    {[dns |-> NoName, cidr |-> {1, 2},
      port_from |-> 2, port_to |-> 9, protocol |-> {}],
     [dns |-> [star |-> FALSE, labels |-> <<"com">>], cidr |-> {},
      port_from |-> 2, port_to |-> Unset, protocol |-> {"ftp"}],
     [dns |-> [star |-> TRUE, labels |-> <<"com", "me">>], cidr |-> {3},
      port_from |-> 1, port_to |-> 2, protocol |-> {"connect"}]}

MCEnds == {<<"me", "me">>, <<"home", "me">>}

MCLine(src) ==
    [src |-> src, dst |-> [addr |-> 1, labels |-> <<1>>],
     rd |-> [addr |-> Unset, labels |-> <<"com", "home">>],
     port |-> 1, method |-> "connect"]

MCLines == {MCLine(d1), MCLine(Unset)}

MCCommands == {[proxy_type |-> "both", strict_proto |-> TRUE],
               [proxy_type |-> "internet", strict_proto |-> FALSE]}

MCContents == {{}, MCRules}

=============================================================================
