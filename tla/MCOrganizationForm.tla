------------------------- MODULE MCOrganizationForm -------------------------
(***************************************************************************)
(* A small instance of OrganizationForm: two countries, an email in two    *)
(* spellings, and templates with and without the JIT role of a new form.   *)
(***************************************************************************)
EXTENDS OrganizationForm

MCGeography == [CO |-> [DC |-> {"Bogota"}],
                MX |-> [JAL |-> {"Zapopan"}]]
MCPhonePrefix == [CO |-> "+57", MX |-> "+52"]
MCTypedPhones == {[prefix |-> "+57", local |-> "300"], [prefix |-> "", local |-> ""]}
MCTyped == {"", "ana", "Ana", "eva"}
MCLower == [e \in MCTyped |-> IF e = "Ana" THEN "ana" ELSE e]
MCTemplates == {<<"Admin-org", "Student-org">>,
                <<"member", "Admin-org", "Student-org">>,
                <<"Student-org">>}
=============================================================================
