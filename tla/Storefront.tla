----------------------------- MODULE Storefront -----------------------------
(* Brands, their product lines, the landing pages that filter the catalogue,  *)
(* and the reviews that visitors leave.                                       *)
EXTENDS Articles

Brands == Table("brands")
HpPages == Table("hp_pages")
ProductLines == Table("product_lines")
Reviews == Table("reviews")

-----------------------------------------------------------------------------
(* Brands: a slug is free again once its brand is deleted. *)

CreateBrandInput == Body({None})
NewBrand == NewRows(CreateBrandInput)
CreateBrand(r) == \E row \in NewBrand : Insert(r, "brands", row, {})

UpdateBrandInput == Edits(Slugs \cup {None}, {})
UpdateBrand == Valid(UpdateBrandInput)
EditBrand(r) == \E b \in Brands : Read(r, b)
SaveBrand(r) == \E e \in UpdateBrand : Save(r, "brands", e, <<>>)

\* Its products and lines keep it.
DeleteBrand == \E b \in Brands : SoftDelete(b)
RestoreBrand == \E b \in Brands : Restore(b)
BrandList == Live("brands")

-----------------------------------------------------------------------------
(* Landing pages: filtered by an attribute (`on`), by categories, by brands.   *)

Choices == SUBSET (StoredIn("categories") \cup StoredIn("brands"))
HasAnyFilter(byAttribute, chosen) == byAttribute \/ chosen # {}

CreateHpPageInput == [slug : Slugs \cup {None}, up : {None}, on : BOOLEAN]
NewHpPage == NewRows(CreateHpPageInput)
CreateHpPage(r) ==
    \E row \in NewHpPage, L \in Choices :
      HasAnyFilter(row.on, L) /\ Insert(r, "hp_pages", row, L)

\* Every save sends all the filters; the slug only if it changes.
UpdateHpPageInput == [slug : Given(Slugs \cup {None}), up : {<<>>}, on : {<<FALSE>>, <<TRUE>>}]
UpdateHpPage == Valid(UpdateHpPageInput)
EditHpPage(r) == \E p \in HpPages : Read(r, p)
SaveHpPage(r) ==
    \E e \in UpdateHpPage, L \in Choices :
      HasAnyFilter(e.on[1], L) /\ Save(r, "hp_pages", e, <<L>>)

DeleteHpPage == \E p \in HpPages : SoftDelete(p)
RestoreHpPage == \E p \in HpPages : Restore(p)
HpPageList == Live("hp_pages")

-----------------------------------------------------------------------------
(* Product lines: a brand and a code that never change, a code unique among   *)
(* the live lines of its brand, and a category that every save sends.         *)

LineTaken(row, i) ==
    \E l \in Live("product_lines") \ {i} : rows[l].up = row.up /\ rows[l].slug = row.slug
Categorised == {{}} \cup {{c} : c \in StoredIn("categories")}

CreateProductLineInput == Body(StoredIn("brands"))
NewProductLine == NewRows(CreateProductLineInput)
CreateProductLine(r) ==
    \E row \in NewProductLine, L \in Categorised :
      ~LineTaken(row, None) /\ Insert(r, "product_lines", row, L)

UpdateProductLineInput == [slug : {<<>>}, up : {<<>>}, on : {<<b>> : b \in BOOLEAN}]
EditProductLine(r) == \E l \in ProductLines : Read(r, l)
SaveProductLine(r) ==
    \E e \in UpdateProductLineInput, L \in Categorised : Save(r, "product_lines", e, <<L>>)

DeleteProductLine == \E l \in ProductLines : SoftDelete(l)
RestoreProductLine == \E l \in ProductLines : ~LineTaken(rows[l], l) /\ Restore(l)
ProductLineList(b) == {l \in Live("product_lines") : b \in {None, rows[l].up}}

-----------------------------------------------------------------------------
(* Reviews: stored once, shown at once, never changed. *)

Reviewed == StoredIn("projects") \cup StoredIn("services") \cup StoredIn("news")
CreateReviewInput == [slug : {None}, up : Reviewed, on : {TRUE}]
NewReview == {[state |-> "live", slug |-> None, up |-> in.up, on |-> in.on] :
                in \in CreateReviewInput}
CreateReview(r) == \E row \in NewReview : Insert(r, "reviews", row, {})
\* On the page of what they are about.
ReviewList(i) == {v \in Live("reviews") : rows[v].on /\ rows[v].up = i}

-----------------------------------------------------------------------------

StorefrontStep(r) ==
    \/ CreateBrand(r) \/ EditBrand(r) \/ CreateHpPage(r) \/ EditHpPage(r)
    \/ CreateProductLine(r) \/ EditProductLine(r) \/ CreateReview(r)
    \/ req[r].pc = "updating" /\ (SaveBrand(r) \/ SaveHpPage(r) \/ SaveProductLine(r))
StorefrontStatement ==
    \/ DeleteBrand \/ RestoreBrand \/ DeleteHpPage \/ RestoreHpPage
    \/ DeleteProductLine \/ RestoreProductLine
=============================================================================
