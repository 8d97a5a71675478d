SPECIFICATION Spec
VIEW Standing
INVARIANT TablesAgree
PROPERTIES KeepsItsTree AllOrNothing
