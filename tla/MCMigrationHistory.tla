------------------------- MODULE MCMigrationHistory -------------------------
(* Two processes, on the databases that versions of the program have left. *)
EXTENDS MigrationHistory

TwoStarts == {"blue", "green"}
Numeric == {Name(b, "numeric") : b \in Bundles}
Bundled == {Name("initial", "bundled"), Name("webhook-credentials", "listed"),
            Name("intake", "bundled")}
Upto(names, bundles) == {n \in names : Meaning(n) \in {Replacements(b) : b \in bundles}}
OldHistories == {Upto(names, bundles) :
                    names \in {Numeric, Bundled},
                    bundles \in {{"initial"}, {"initial", "credentials"}, Bundles}}
=============================================================================
