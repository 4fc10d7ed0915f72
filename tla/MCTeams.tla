------------------------------- MODULE MCTeams -------------------------------
(***************************************************************************)
(* A registry for Teams, with all contracts of three kinds: three builders *)
(* with any dependencies, chains of builders, and two demands of any roles *)
(* under any constraint tags.                                              *)
(***************************************************************************)
EXTENDS Teams, TLC

ComplianceValidator == 1  DatabaseEngineer == 2  DepartmentLeadType == 3  Developer == 4
FallbackValidator == 5    QAValidator == 6       ReviewerType == 7        SecurityAuditor == 8
TeamLeadType == 9         TechnicalWriter == 10

\* Capabilities that are no type's name.
Code == 21  Data == 22

AllTypes == 1..10
OfTypes(f, default) == [t \in AllTypes |-> IF t \in DOMAIN f THEN f[t] ELSE default]

Skills == OfTypes(DatabaseEngineer :> {Data, Code} @@ Developer :> {Code}
                    @@ QAValidator :> {Code}, {})
Rights == OfTypes(DatabaseEngineer :> {"all"} @@ Developer :> {"all"}, {})
NoMerit == OfTypes(QAValidator :> 1, 0)
Duties == OfTypes(ComplianceValidator :> {"compliance"} @@ FallbackValidator :> {"compliance"}
                    @@ QAValidator :> {"functional"} @@ SecurityAuditor :> {"security"}
                    @@ Developer :> {"functional"}, {})
Two      == OfTypes(Developer :> 2 @@ DatabaseEngineer :> 2, 0)
Database == OfTypes(DatabaseEngineer :> "database", "none")
Trades   == OfTypes(DatabaseEngineer :> "DATA" @@ TechnicalWriter :> "PRODUCT", "ENGINEERING")
Readable == {<<t, u, m>> \in AllTypes \X AllTypes \X {"EVIDENCE", "REVIEW"} : u # TechnicalWriter}

Areas   == {"all", "a", "b", "c"}
Nested  == {<<p, "all">> : p \in Areas} \cup {<<"all", p>> : p \in Areas}
Gates   == <<"compliance", "documentation", "functional", "security">>
Defaults == [compliance |-> ComplianceValidator, documentation |-> 0,
             functional |-> QAValidator, security |-> SecurityAuditor]

Contract(demands, tags) == [demands |-> demands, tags |-> tags]
Own(i) == IF i % 3 = 1 THEN {"a"} ELSE IF i % 3 = 2 THEN {"b"} ELSE {"c"}

\* Three builders, any graph of dependencies, cycles too.
Graphs3 ==
  {Contract([i \in 1..3 |-> Demand(i, skill[i], "builder", Own(i), gates[i], deps[i])], {}) :
     skill \in [1..3 -> {Code, Data}],
     deps \in {d \in [1..3 -> SUBSET (1..3)] : \A i \in 1..3 : i \notin d[i]},
     gates \in {[i \in 1..3 |-> {}], <<{"security"}, {}, {"functional"}>>}}
\* A chain of builders of one area.
Chains ==
  {Contract([i \in 1..n |-> Demand(i, skill, "builder", {"a"}, gates, {i - 1} \ {0})], {}) :
     n \in 1..5, skill \in {Code, Data}, gates \in SUBSET {"security", "functional"}}
\* Two demands of any role, any tags.
Mixed ==
  {Contract(<<Demand(1, Code, role[1], path[1], {}, {}),
              Demand(2, skill, role[2], path[2], gates, {})>>, tags) :
     role \in [1..2 -> Roles], path \in [1..2 -> {{}, {"a"}, {"all"}}],
     skill \in {Code, Data}, gates \in {{}, {"functional"}},
     tags \in SUBSET {"regulated", "security", "public-api"}}
AllContracts == Graphs3 \cup Chains \cup Mixed
=============================================================================
