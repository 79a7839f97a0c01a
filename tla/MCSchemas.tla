------------------------------ MODULE MCSchemas ------------------------------
(* Schemas for TLC: the models of storages/relational/models/account.py with  *)
(* a backward relation, and a model related to itself.                        *)
EXTENDS Schemas

None == [f \in {} |-> ""]
MCModel ==
    [Account |-> [pk |-> "id", data |-> {"name", "created_at", "company_id", "role_id"},
                  readOnly |-> {"created_at"}, backward |-> FALSE,
                  to |-> [company |-> "Company", role |-> "Role"],
                  place |-> [company |-> 1, role |-> 2],
                  raw |-> [company |-> "company_id", role |-> "role_id"]],
     Role |-> [pk |-> "id", data |-> {"name"}, readOnly |-> {}, backward |-> FALSE,
               to |-> [accounts |-> "Account"], place |-> [accounts |-> 1], raw |-> None],
     Company |-> [pk |-> "id", data |-> {"name", "industry"}, readOnly |-> {}, backward |-> TRUE,
                  to |-> [accounts |-> "Account"], place |-> [accounts |-> 1], raw |-> None],
     Group |-> [pk |-> "id", data |-> {"name", "parent_id"}, readOnly |-> {}, backward |-> TRUE,
                to |-> [parent |-> "Group", groups |-> "Group"],
                place |-> [parent |-> 1, groups |-> 2], raw |-> [parent |-> "parent_id"]]]

Asks(c, name, include, exclude, readonly, cycles) ==
    [cls |-> c, name |-> name, include |-> include, exclude |-> exclude,
     readonly |-> readonly, cycles |-> cycles]
CompanyNameOnly == {<<"id">>, <<"company_id">>, <<"company">>, <<"company", "name">>}
MCCalls ==
    {Asks("Account", NoName, {}, {}, FALSE, "default"),
     Asks("Account", NoName, {}, {}, FALSE, "yes"),
     Asks("Account", NoName, CompanyNameOnly, {}, FALSE, "default"),
     Asks("Account", NoName, {}, {<<"company_id">>}, FALSE, "default"),
     Asks("Account", NoName, {}, {}, TRUE, "default"),
     Asks("Account", NoName, {}, {<<"role", "name">>}, FALSE, "no"),
     Asks("Role", NoName, {<<"name">>}, {}, FALSE, "default"),
     Asks("Account", "Listed", {}, {<<"company", "name">>}, FALSE, "default"),
     Asks("Company", NoName, {}, {}, FALSE, "default"),
     Asks("Company", NoName, {}, {<<"accounts", "company_id">>}, FALSE, "default"),
     Asks("Company", NoName, {}, {<<"accounts", "company">>}, FALSE, "default"),
     Asks("Company", NoName, {}, {<<"name">>, <<"accounts">>}, FALSE, "default"),
     Asks("Company", "Listed", {}, {}, FALSE, "default"),
     Asks("Group", NoName, {}, {}, FALSE, "default"),
     Asks("Group", NoName, {}, {<<"groups">>}, FALSE, "yes")}

\* AccountList of storages/relational/schema/account.py.
MCDeclared ==
    {[family |-> "library", cls |-> "Account", rels |-> {<<"company">>}, fetch |-> {},
      paths |-> {<<"id">>, <<"name">>, <<"created_at">>, <<"company">>, <<"company", "id">>,
                 <<"company", "name">>, <<"company", "industry">>}]}

MCSelections == {{"name"}, {"company"}, {"accounts", "company", "name"}}

=============================================================================
