------------------------------ MODULE Pagination ------------------------------
(***************************************************************************)
(* The pages of a listing: paginated_select_with_metadata and              *)
(* paginated_select_fast of the repository, and the metadata of the        *)
(* response (core/api/dtos/pagination.py).                                  *)
(***************************************************************************)
EXTENDS Integers, SequencesExt

\* LIMIT and OFFSET.
Window(listing, limit, offset) ==
  LET end == offset + limit
  IN SubSeq(listing, offset + 1, IF end < Len(listing) THEN end ELSE Len(listing))

\* Mutant: a full last page announces one more.
TotalPagesRoundedUp(total, size) == total \div size + 1

TotalPages(total, size) == IF total > 0 THEN (total + size - 1) \div size ELSE 1

PageWithMetadata(listing, size, page) ==
  LET pages == TotalPages(Len(listing), size)
  IN [items |-> Window(listing, size, (page - 1) * size), total_pages |-> pages,
      has_next |-> page < pages, has_previous |-> page > 1]

\* One item more than the page tells whether there is a next one.
PageFast(listing, size, page) ==
  LET fetched == Window(listing, size + 1, (page - 1) * size)
  IN [items |-> Window(fetched, size, 0),
      has_next |-> Len(fetched) > size, has_previous |-> page > 1]

\* map_paginated_result.
MapPage(p, mapper) == [p EXCEPT !.items = [i \in DOMAIN @ |-> mapper[@[i]]]]

\* PaginationMeta.create.
Meta(page, size, total) ==
  LET pages == IF size > 0 THEN (total + size - 1) \div size ELSE 0
  IN [total_pages |-> pages, has_next |-> page < pages, has_prev |-> page > 1]

\* Whoever starts at the first page and goes on as long as has_next says so reads
\* the listing once, in order, to its end; the fast variant and the metadata of the
\* response agree page by page, also on an empty listing and a full last page.  (Not so
\* the number of pages: an empty listing has one by base.py:279, none by PaginationMeta.)
CoversListing(total, size) ==
  LET listing == [i \in 1..total |-> i]
      Page(p) == PageWithMetadata(listing, size, p)
      last == CHOOSE p \in 1..(total + 1) : ~Page(p).has_next /\ \A q \in 1..(p - 1) : Page(q).has_next
  IN /\ FlattenSeq([p \in 1..last |-> Page(p).items]) = listing
     /\ \A p \in 1..last :
          /\ p > 1 => Page(p).items # << >>
          /\ PageFast(listing, size, p) = [items |-> Page(p).items, has_next |-> Page(p).has_next,
                                           has_previous |-> Page(p).has_previous]
          /\ Meta(p, size, total).has_next = Page(p).has_next
          /\ Meta(p, size, total).has_prev = Page(p).has_previous
          /\ LET dtos == MapPage(Page(p), [x \in 1..total |-> -x])
             IN Len(dtos.items) = Len(Page(p).items) /\ dtos.has_next = Page(p).has_next
===============================================================================
