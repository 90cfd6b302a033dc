------------------------------- MODULE MCSite -------------------------------
(* Site on three keys, or on two: tables that refer to one another.            *)
EXTENDS Site, TLC

CONSTANTS r1, r2, s1, s2

\* The cascade over two categories, a project between its type and its
\* category, and every pair of tables that share a slug, a reference or a join.
TablesOfKeys == {
    <<"group_categories", "categories", "categories">>,
    <<"project_type", "projects", "categories">>,
    <<"group_categories", "categories", None>>, <<"categories", "categories", None>>,
    <<"project_type", "categories", None>>, <<"project_type", "projects", None>>,
    <<"projects", "services", None>>, <<"services", "categories", None>>,
    <<"projects", "projects", None>>,
    <<"news", "categories", None>>, <<"news", "pages", None>>,
    <<"branches", "news", None>>, <<"pages", "faqs", None>>, <<"news", "contacts", None>>,
    <<"brands", "hp_pages", None>>, <<"brands", "product_lines", "product_lines">>,
    <<"hp_pages", "reviews", "news">> }
OneService == {<<"services", "categories", "categories">>}
Symmetry == Permutations({r1, r2}) \cup Permutations({s1, s2})
=============================================================================
