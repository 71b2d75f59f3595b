CONSTANTS
    NoOne = NoOne
    q1 = q1
    q2 = q2
    Replacements = {q1, q2}
    p1 = p1
    p2 = p2
    p3 = p3
    Projects = {p1, p2, p3}
    Limit = 2
    Ranks = {}
SPECIFICATION FeaturedSpec
SYMMETRY FeaturedSymmetry
PROPERTY OrderIsWhole
