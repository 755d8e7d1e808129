\* Requests that undo a link, cancel a renewal, remove a license or close a
\* line are overtaken.  Past the first overtaken unlink or deletion nothing
\* is claimed, so nothing is explored.
SPECIFICATION HSpec
CONSTANTS
    Licenses = {l1, l2, l3}
    Items = {i1, i2}
    Users = {u1}
    None = none
    Split = {"unlink", "delete", "cancel", "close_line"}
    MaxFlagged = 0
CHECK_DEADLOCK FALSE
SYMMETRY Symmetry
CONSTRAINT NoLinkOvertaken
INVARIANTS
    LinksUnlessOvertaken
    StatusUnlessOvertaken
PROPERTIES
    LinksStayUnlessOvertaken
