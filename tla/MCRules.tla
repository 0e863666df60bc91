------------------------------ MODULE MCRules ------------------------------
(* Instances of the bypass rules for TLC. *)
EXTENDS Rules, TLC

Hash == <<"#">>

(* Rules and hosts, with a port, and the IPv6 literals ::1 and fd00::1. *)
Localhost  == <<"localhost">>
Apple      == <<"apple", "com">>
SomeLines  == {Blank, Hash, Localhost, Apple, <<"", "apple", "com">>, <<"*", "com">>,
               <<"", "">>, <<"::1">>}
Defaults   == {Localhost, <<"::1">>, <<"", "apple", "com">>}
AnyTexts   == SUBSET SomeLines
SomeLabels == {"", "*", "#", "localhost", "localhost:80", "com", "com:80", "apple", "foo",
               "notapple", "::1", "fd00::1"}
SomeColons == [l \in {"localhost:80", "com:80", "::1", "fd00::1"} |->
                  IF l = "localhost:80" THEN "localhost" ELSE IF l = "com:80" THEN "com"
                  ELSE IF l = "::1" THEN "" ELSE "fd00"]
Host(asked, means) == [asked |-> asked, means |-> means]
SomeHosts  == {Host(name, name) : name \in {Localhost, Apple, <<"foo", "apple", "com">>,
                                            <<"notapple", "com">>, <<"com", "">>,
                                            <<"::1">>, <<"fd00::1">>}}
              \cup {Host(<<"localhost:80">>, Localhost), Host(<<"apple", "com:80">>, Apple)}
=============================================================================
